---- MODULE Spec2Model ----
(***************************************************************************)
(* Verification model of alexbenari/github-summarizer.                     *)
(*                                                                         *)
(* The module holds one state machine per subsystem, each with its own     *)
(* specification; a subsystem that a specification does not exercise stays *)
(* in its idle state.                                                      *)
(*                                                                         *)
(*   SpecRetry   : GithubGate._run_with_retry (github_gate/client.py)      *)
(*   SpecCollect : category extraction (github_gate/client.py)             *)
(*   SpecProc    : process_markdown (repo_processor/processor.py)          *)
(*   SpecService : summarize_service, _fetch_all_entities (main.py)        *)
(*   SpecLlmRetry: LlmGate._call_with_retry (llm_gate/client.py)           *)
(*   SpecParse   : the two digest parsers and render_processed_markdown    *)
(*   SpecNormalize: LlmGate._normalize_and_validate (llm_gate/client.py)   *)
(*   SpecUrl     : GithubGate.parse_repo_url (github_gate/client.py)       *)
(*   SpecEdge    : POST /summarize and its exception handlers (main.py)    *)
(*   SpecSummarize: LlmGate.summarize up to its retry loop (client.py)     *)
(*   SpecTruncate: _truncate_for_field (repo_processor/processor.py)       *)
(*   SpecBaseline: the baseline steps of process_markdown                  *)
(*   SpecAlloc: _allocate_optional_bytes, pass by pass                     *)
(***************************************************************************)
EXTENDS Integers, Sequences, FiniteSets, TLC

VARIABLES
    \* ---- GithubGate._run_with_retry ----
    rr_pc,          \* position of the request thread inside _run_with_retry
    rr_max_retries, \* self.max_retries
    rr_attempt,     \* loop variable `attempt` (0 before the first pass)
    rr_calls,       \* number of times op has been submitted to a worker
    rr_sleeps,      \* number of time.sleep(backoff) calls made
    rr_worker,      \* worker thread of the current attempt: none | running | done
    rr_last_exc,    \* local last_exc (NoExc when None)
    rr_failure,     \* what the current attempt ended with (input, for the record)
    rr_raised,      \* the exception that left _run_with_retry (NoExc if none)
    rr_terminal,    \* TRUE once an attempt failed with a failure that is not retried
    \* ---- category extraction (get_documentation / get_tests / get_code /
    \*      get_build_and_package_data, _collect_files_from_tree_paths) ----
    col_pc,         \* idle | homepage | loop | done
    col_category,   \* documentation | tests | build_package | code
    col_limits,     \* the GithubGateLimits fields the category reads
    col_n,          \* len(ordered_paths)
    col_idx,        \* number of candidates the loop has consumed
    col_total_limit,\* argument total_limit of _collect_files_from_tree_paths
    col_used,       \* local `used` of _collect_files_from_tree_paths
    col_picked,     \* number of files in the local list `selected`
    col_files,      \* byte_size of every file of the category's result so far
    col_paths,      \* path of every file of the category's result so far
    col_last,       \* what the latest step did (for the record)
    col_warnings,   \* self.warnings: the event each entry was appended for
    col_fetch,      \* what the latest step fetched: subject, payload, error raised
    col_elapsed,    \* the durations that had elapsed at the latest clock reading
    \* ---- process_markdown ----
    proc_pc,        \* idle | called | done
    proc_doc,       \* the digest handed to process_markdown, by section
    proc_cfg,       \* the RepoProcessorConfig
    proc_result,    \* what the call ended in
    \* ---- summarize_service ----
    svc_pc,         \* position of the request inside summarize_service
    svc_gate,       \* what main.LlmGate resolves to: LlmGate | substitute
    svc_cfg,        \* rp_cfg, the RepoProcessorConfig of the runtime file
    svc_stage,      \* number of the next stage of _fetch_all_entities
    svc_deadline,   \* elapsed_ms >= max_total_fetch_ms
    svc_results,    \* results[...] of the four optional stages
    svc_calls,      \* the calls made so far, in order
    svc_outcomes,   \* what each process_markdown call ended in
    svc_input,      \* local llm_input_markdown
    svc_sent,       \* the markdown of each llm_gate.summarize call
    svc_llm_out,    \* provider response and raised error of each such call
    svc_ratio,      \* local target_ratio (NoRatio before the retry path)
    svc_error,      \* the exception that left summarize_service
    svc_status,     \* local status_code
    svc_warnings,   \* local list `warnings` of _fetch_all_entities
    svc_late,       \* stages whose call began with the fetch budget used up
    \* ---- LlmGate._call_with_retry ----
    lcr_pc,         \* position of the calling thread inside _call_with_retry
    lcr_max_retries,\* cfg.max_retries
    lcr_attempt,    \* loop variable attempt (0 before the first pass)
    lcr_calls,      \* number of times op has been submitted to a worker
    lcr_sleeps,     \* number of time.sleep(backoff) calls made
    lcr_worker,     \* worker thread of the current attempt: none | running | done
    lcr_abandoned,  \* workers left running by attempts that timed out
    lcr_last_exc,   \* local last_exc (NoLlmExc when None)
    lcr_failures,   \* what each attempt ended with, in order
    lcr_raised,     \* the exception that left _call_with_retry (NoLlmExc if none)
    \* ---- digest parsers (llm_gate/markdown_parser.py, repo_processor/parser.py) ----
    prs_pc,         \* idle | scan | sliced | rendered | raised
    prs_parser,     \* llm_gate | repo_processor
    prs_x,          \* the ProcessedRepoMarkdown sections the digest was rendered from
    prs_doc,        \* the lines of markdown_text, each with the part of the digest it is
    prs_idx,        \* number of lines the boundary loop has consumed
    prs_in_fence,   \* local in_fence of the boundary loop
    prs_boundaries, \* local boundaries, by line number
    prs_values,     \* the sections the parser returns, by field
    prs_rendered,   \* render_processed_markdown of the parsed sections
    \* ---- LlmGate._normalize_and_validate ----
    nrm_pc,         \* idle | called | once | twice
    nrm_payload,    \* the payload handed to _normalize_and_validate
    nrm_first,      \* what the call on the payload ended in
    nrm_second,     \* what the call on the first call's result ended in
    \* ---- GithubGate.parse_repo_url ----
    url_pc,         \* idle | start | done
    url_input,      \* the argument github_url, as the parts urlparse splits it into
    url_result,     \* the RepoRef returned or the error raised (NoUrlResult before)
    \* ---- POST /summarize and the exception handlers (main.py) ----
    edge_pc,        \* idle | received | parse | rest | finally | handling | responded
    edge_request,   \* the request: body validity, github_url, whether the log file name can be written
    edge_exc,       \* the exception on its way out of summarize_service (NoEdgeExc if none)
    edge_response,  \* the JSONResponse sent (NoResponse before)
    \* ---- LlmGate.summarize (llm_gate/client.py) ----
    sum_pc,         \* idle | start | parse | call | attempt | raised | returned
    sum_precheck,   \* ok | no_api_key | bad_options: what lines 32-36 find
    sum_markdown,   \* the argument markdown_text, as lines
    sum_digest,     \* the RepoDigest parse_repo_digest_markdown returned (NoSectionValues before)
    sum_raised,     \* code of the error summarize raised ("" if none)
    sum_attempts,   \* attempts of the retry loop started so far
    \* ---- _truncate_for_field (repo_processor/processor.py) ----
    trn_pc,         \* idle | called | done
    trn_field,      \* argument field_name
    trn_content,    \* argument content
    trn_max_bytes,  \* argument max_bytes
    trn_result,     \* the (text, flag) pair returned (NoTruncation before)
    trn_selected,   \* lines _truncate_directory_tree selected (<<>> if not called)
    \* ---- baseline steps of process_markdown ----
    bsl_pc,         \* "called", "shrink", "check", "returned", "allocate", "raised"
    bsl_doc,        \* the parsed digest
    bsl_max_repo_bytes,\* max_repo_bytes
    bsl_step,       \* index into BaselineShrinkOrder of the next step
    bsl_st,         \* sections and truncation_notes
    bsl_exc,        \* the RepoProcessorBudgetError raised, if any
    \* ---- _allocate_optional_bytes, pass by pass ----
    alc_pc,         \* "called", "loop", "returned"
    alc_available,  \* available_bytes
    alc_sizes,      \* category_sizes
    alc_weights,    \* weights
    alc_allocation, \* allocation
    alc_unsatisfied,\* unsatisfied
    alc_remaining,  \* remaining
    alc_exit,       \* which test ended the loop
    \* ---- metadata cache of one GithubGate (github_gate/client.py) ----
    mdc_pc,         \* idle, or constructed once GithubGate.__init__ has run
    mdc_cache,      \* self._metadata_cache, NoMetadata where the key is absent
    mdc_fetches,    \* per key, the upstream metadata requests made through _run_with_retry
    mdc_first,      \* per key, the metadata of the first get_repo_metadata that succeeded
    mdc_last,       \* the last call: method, key, cache hit, what it raised, metadata it used
    mdc_calls,      \* number of calls made on the instance
    \* ---- the debug log of summarize_service (main.py) ----
    dbg_pc,         \* idle | start | gates | verify | github_fetch | repo_processor | llm_call | finally | out
    dbg_env,        \* whether config/runtime.json serves LlmGate(), whether logs/ takes the file, warnings the fetch gives
    dbg_lines,      \* debug.lines, oldest first
    dbg_status,     \* the local status_code
    dbg_raised,     \* name of the exception on its way out ("" if none)
    dbg_write_calls,\* calls of debug.write() so far
    dbg_files       \* the log files on disk, each as its lines

rr_vars == <<rr_pc, rr_max_retries, rr_attempt, rr_calls, rr_sleeps, rr_worker,
             rr_last_exc, rr_failure, rr_raised, rr_terminal>>

col_vars == <<col_pc, col_category, col_limits, col_n, col_idx, col_total_limit,
              col_used, col_picked, col_files, col_paths, col_last, col_warnings,
              col_fetch, col_elapsed>>

proc_vars == <<proc_pc, proc_doc, proc_cfg, proc_result>>

svc_vars == <<svc_pc, svc_gate, svc_cfg, svc_stage, svc_deadline, svc_results,
              svc_calls, svc_outcomes, svc_input, svc_sent, svc_llm_out,
              svc_ratio, svc_error, svc_status, svc_warnings, svc_late>>

lcr_vars == <<lcr_pc, lcr_max_retries, lcr_attempt, lcr_calls, lcr_sleeps, lcr_worker, lcr_abandoned, lcr_last_exc, lcr_failures, lcr_raised>>

prs_vars == <<prs_pc, prs_parser, prs_x, prs_doc, prs_idx, prs_in_fence, prs_boundaries, prs_values, prs_rendered>>

nrm_vars == <<nrm_pc, nrm_payload, nrm_first, nrm_second>>

url_vars == <<url_pc, url_input, url_result>>

edge_vars == <<edge_pc, edge_request, edge_exc, edge_response>>

sum_vars == <<sum_pc, sum_precheck, sum_markdown, sum_digest, sum_raised, sum_attempts>>

trn_vars == <<trn_pc, trn_field, trn_content, trn_max_bytes, trn_result, trn_selected>>

bsl_vars == <<bsl_pc, bsl_doc, bsl_max_repo_bytes, bsl_step, bsl_st, bsl_exc>>

alc_vars == <<alc_pc, alc_available, alc_sizes, alc_weights, alc_allocation, alc_unsatisfied, alc_remaining, alc_exit>>

mdc_vars == <<mdc_pc, mdc_cache, mdc_fetches, mdc_first, mdc_last, mdc_calls>>

dbg_vars == <<dbg_pc, dbg_env, dbg_lines, dbg_status, dbg_raised, dbg_write_calls, dbg_files>>

vars == <<rr_pc, rr_max_retries, rr_attempt, rr_calls, rr_sleeps, rr_worker,
          rr_last_exc, rr_failure, rr_raised, rr_terminal,
          col_pc, col_category, col_limits, col_n, col_idx, col_total_limit,
          col_used, col_picked, col_files, col_paths, col_last, col_warnings, col_fetch,
          col_elapsed,
          proc_pc, proc_doc, proc_cfg, proc_result,
          svc_pc, svc_gate, svc_cfg, svc_stage, svc_deadline, svc_results,
          svc_calls, svc_outcomes, svc_input, svc_sent, svc_llm_out,
          svc_ratio, svc_error, svc_status, svc_warnings, svc_late,
          lcr_pc, lcr_max_retries, lcr_attempt, lcr_calls, lcr_sleeps, lcr_worker, lcr_abandoned, lcr_last_exc, lcr_failures, lcr_raised,
          prs_pc, prs_parser, prs_x, prs_doc, prs_idx, prs_in_fence, prs_boundaries, prs_values, prs_rendered,
          nrm_pc, nrm_payload, nrm_first, nrm_second,
          url_pc, url_input, url_result,
          edge_pc, edge_request, edge_exc, edge_response,
          sum_pc, sum_precheck, sum_markdown, sum_digest, sum_raised, sum_attempts,
          trn_pc, trn_field, trn_content, trn_max_bytes, trn_result, trn_selected,
          bsl_pc, bsl_doc, bsl_max_repo_bytes, bsl_step, bsl_st, bsl_exc,
          alc_pc, alc_available, alc_sizes, alc_weights, alc_allocation, alc_unsatisfied, alc_remaining, alc_exit,
          mdc_pc, mdc_cache, mdc_fetches, mdc_first, mdc_last, mdc_calls,
          dbg_pc, dbg_env, dbg_lines, dbg_status, dbg_raised, dbg_write_calls, dbg_files>>

(***************************************************************************)
(* Bounds of the model.                                                    *)
(***************************************************************************)
MaxRetriesBound == 2
\* category extraction: sizes are scaled down, the comparisons are the code's
MaxCandidates == 3      \* candidates in ordered_paths
MaxFileBytes == 3       \* largest tree-reported or downloaded size
MaxSingleLimit == 2     \* largest max_single_file_bytes tried
MaxTotalLimit == 3      \* largest per-category total-bytes cap tried
MaxFilesLimit == 2      \* largest per-category file-count cap tried
\* process_markdown: the digests and configurations tried
MetaChars == 30         \* bytes of the Repository Metadata section
LangChars == 12         \* bytes of the Language Stats section
ReadmeChars == 50       \* bytes of the README section
TreeLineBytes == 10     \* bytes of a Directory Tree line
MaxTreeLines == 3       \* lines of the Directory Tree section
DocBodyBytes == 20      \* body bytes of the first documentation file
BuildBodyBytes == 10    \* body bytes of the build/package file
MaxBodyBytes == 36      \* body bytes of the largest file block
MaxCtxTokens == 350     \* largest model_context_window_tokens tried
CtxStep == 25           \* spacing of the model_context_window_tokens tried
BytesPerToken == 4      \* bytes_per_token_estimate
\* summarize_service
ProviderMaxTokens == 100 \* N of the provider's overflow message

MaxContentLines == 3     \* lines of a file's content inside its file block

MaxShortChars == 2       \* characters of the short technologies tried
LongPrefixChars == 78    \* leading characters of the long technologies tried
LongListItems == 19      \* items at the head of the long technologies lists
MaxTechItems == 3        \* items of the short technologies lists tried

(***************************************************************************)
(* GithubGate._run_with_retry                                              *)
(***************************************************************************)
NoStatus == 0

RETRYABLE_STATUSES == {429, 502, 503, 504}
NON_RETRYABLE_STATUSES == {400, 401, 403, 404}

NoExc == [code |-> "none", upstream_status |-> NoStatus]
NoFailure == [cls |-> "none", status |-> NoStatus, rate_text |-> FALSE]

\* The exceptions an operation can end with, by what the handler looks at:
\*   cls       "http"    urllib HTTPError (a URLError) carrying a status
\*             "network" URLError / OSError without a status
\*             "gate"    one of GithubGateExceptionTypes() raised inside op
\*             "other"   any other exception (it may still carry an int status)
\*   status    what _extract_status finds (NoStatus for None)
\*   rate_text whether str(exc) contains "rate limit"
HttpStatuses == {400, 401, 403, 404, 429, 500, 502, 503, 504}

OpFailures ==
    [cls : {"http", "other"}, status : HttpStatuses, rate_text : BOOLEAN]
    \cup [cls : {"network", "gate", "other"}, status : {NoStatus}, rate_text : BOOLEAN]

\* self._is_rate_limit_signal(exc)
IsRateLimitSignal(f) == f.rate_text

\* The except-branch of the loop body for `except Exception as exc`:
\* what the failure is mapped to, and whether the branch raises at once
\* (terminal) or records last_exc and lets the loop go on.
MapFailure_No403RateLimit(f) ==
    IF f.status = 404
      THEN [code |-> "repository_inaccessible", upstream_status |-> 404, terminal |-> TRUE]
    ELSE IF f.status \in RETRYABLE_STATUSES
      THEN [code |-> "github_upstream_error", upstream_status |-> f.status, terminal |-> FALSE]
    ELSE IF f.status \in NON_RETRYABLE_STATUSES
      THEN IF f.status = 403
             THEN [code |-> "repository_inaccessible", upstream_status |-> 403, terminal |-> TRUE]
             ELSE [code |-> "github_upstream_error", upstream_status |-> f.status, terminal |-> TRUE]
    ELSE IF f.cls \in {"http", "network"}
      THEN [code |-> "github_upstream_error", upstream_status |-> NoStatus, terminal |-> FALSE]
    ELSE IF f.cls = "gate"
      THEN [code |-> "gate_error_reraised", upstream_status |-> NoStatus, terminal |-> TRUE]
    ELSE [code |-> "github_upstream_error", upstream_status |-> NoStatus, terminal |-> TRUE]

MapFailure(f) ==
    IF f.status = 404
      THEN [code |-> "repository_inaccessible", upstream_status |-> 404, terminal |-> TRUE]
    ELSE IF f.status = 403 /\ IsRateLimitSignal(f)
      THEN [code |-> "github_rate_limited", upstream_status |-> 403, terminal |-> FALSE]
    ELSE IF f.status \in RETRYABLE_STATUSES
      THEN [code |-> "github_upstream_error", upstream_status |-> f.status, terminal |-> FALSE]
    ELSE IF f.status \in NON_RETRYABLE_STATUSES
      THEN IF f.status = 403
             THEN [code |-> "repository_inaccessible", upstream_status |-> 403, terminal |-> TRUE]
             ELSE [code |-> "github_upstream_error", upstream_status |-> f.status, terminal |-> TRUE]
    ELSE IF f.cls \in {"http", "network"}
      THEN [code |-> "github_upstream_error", upstream_status |-> NoStatus, terminal |-> FALSE]
    ELSE IF f.cls = "gate"
      THEN [code |-> "gate_error_reraised", upstream_status |-> NoStatus, terminal |-> TRUE]
    ELSE [code |-> "github_upstream_error", upstream_status |-> NoStatus, terminal |-> TRUE]

\* GithubTimeoutError("GitHub request timed out.") -- upstream_status is 504
TimeoutExc == [code |-> "github_timeout", upstream_status |-> 504]

ExcOf(m) == [code |-> m.code, upstream_status |-> m.upstream_status]

\* attempts = self.max_retries + 1
Attempts(max_retries) == max_retries + 1

\* should_retry = attempt < attempts
ShouldRetry_Always(attempt, attempts) == TRUE

ShouldRetry(attempt, attempts) == attempt < attempts

RRIdle ==
    /\ rr_pc = "idle"
    /\ rr_max_retries = 0
    /\ rr_attempt = 0
    /\ rr_calls = 0
    /\ rr_sleeps = 0
    /\ rr_worker = "none"
    /\ rr_last_exc = NoExc
    /\ rr_failure = NoFailure
    /\ rr_raised = NoExc
    /\ rr_terminal = FALSE

\* Entry of _run_with_retry: last_exc = None, the loop has not started.
RRInit ==
    /\ rr_pc = "loop"
    /\ rr_max_retries \in 0..MaxRetriesBound
    /\ rr_attempt = 0
    /\ rr_calls = 0
    /\ rr_sleeps = 0
    /\ rr_worker = "none"
    /\ rr_last_exc = NoExc
    /\ rr_failure = NoFailure
    /\ rr_raised = NoExc
    /\ rr_terminal = FALSE

\* for attempt in range(1, attempts + 1): ... executor.submit(op)
\* When the range is exhausted the code after the loop raises last_exc.
RRStartAttempt ==
    /\ rr_pc = "loop"
    /\ rr_attempt < Attempts(rr_max_retries)
    /\ rr_attempt' = rr_attempt + 1
    /\ rr_calls' = rr_calls + 1
    /\ rr_worker' = "running"
    /\ rr_failure' = NoFailure
    /\ rr_pc' = "result"
    /\ UNCHANGED <<rr_max_retries, rr_sleeps, rr_last_exc, rr_raised, rr_terminal>>

RRLoopExhausted ==
    /\ rr_pc = "loop"
    /\ rr_attempt >= Attempts(rr_max_retries)
    /\ rr_raised' = IF rr_last_exc # NoExc
                      THEN rr_last_exc
                      ELSE [code |-> "github_upstream_error", upstream_status |-> NoStatus]
    /\ rr_pc' = "raised"
    /\ UNCHANGED <<rr_max_retries, rr_attempt, rr_calls, rr_sleeps, rr_worker,
                   rr_last_exc, rr_failure, rr_terminal>>

\* future.result(...) returns the operation's value within the deadline;
\* the with-block's exit joins a worker that has already finished.
RROpReturns ==
    /\ rr_pc = "result"
    /\ rr_worker = "running"
    /\ rr_worker' = "done"
    /\ rr_failure' = [cls |-> "success", status |-> NoStatus, rate_text |-> FALSE]
    /\ rr_pc' = "returned"
    /\ UNCHANGED <<rr_max_retries, rr_attempt, rr_calls, rr_sleeps, rr_last_exc,
                   rr_raised, rr_terminal>>

\* The step after an attempt that did not raise out of the loop:
\* `if should_retry: time.sleep(...)`, then the next pass of the loop.
AfterRetryable(exc) ==
    /\ rr_last_exc' = exc
    /\ IF ShouldRetry(rr_attempt, Attempts(rr_max_retries))
         THEN /\ rr_pc' = "sleeping"
              /\ rr_sleeps' = rr_sleeps + 1
         ELSE /\ rr_pc' = "loop"
              /\ rr_sleeps' = rr_sleeps

\* future.result(...) re-raises the operation's exception within the deadline.
RROpRaises ==
    /\ rr_pc = "result"
    /\ rr_worker = "running"
    /\ \E f \in OpFailures :
         /\ rr_failure' = f
         /\ rr_worker' = "done"
         /\ IF MapFailure(f).terminal
              THEN /\ rr_raised' = ExcOf(MapFailure(f))
                   /\ rr_pc' = "raised"
                   /\ rr_terminal' = TRUE
                   /\ UNCHANGED <<rr_last_exc, rr_sleeps>>
              ELSE /\ AfterRetryable(ExcOf(MapFailure(f)))
                   /\ UNCHANGED <<rr_raised, rr_terminal>>
    /\ UNCHANGED <<rr_max_retries, rr_attempt, rr_calls>>

\* future.result(timeout=self.attempt_timeout_seconds) raises FuturesTimeout
\* while the worker is still inside op.  The exception leaves the
\* `with ThreadPoolExecutor(...)` block, whose __exit__ calls
\* executor.shutdown(wait=True).
RRDeadline ==
    /\ rr_pc = "result"
    /\ rr_worker = "running"
    /\ rr_failure' = [cls |-> "deadline", status |-> NoStatus, rate_text |-> FALSE]
    /\ rr_pc' = "executor_exit"
    /\ UNCHANGED <<rr_max_retries, rr_attempt, rr_calls, rr_sleeps, rr_worker,
                   rr_last_exc, rr_raised, rr_terminal>>

\* The abandoned operation ends on its own (its socket timeout, or a late
\* answer); its value or exception is dropped.
RRLateWorkerEnds ==
    /\ rr_pc = "executor_exit"
    /\ rr_worker = "running"
    /\ rr_worker' = "done"
    /\ UNCHANGED <<rr_pc, rr_max_retries, rr_attempt, rr_calls, rr_sleeps,
                   rr_last_exc, rr_failure, rr_raised, rr_terminal>>

\* Guard of leaving the with-block: shutdown(wait=True) returns only once the
\* worker thread has ended.
ExecutorExitReturns == rr_worker = "done"

\* `except FuturesTimeout`: last_exc = GithubTimeoutError, should_retry = ...
RRTimeoutHandled ==
    /\ rr_pc = "executor_exit"
    /\ ExecutorExitReturns
    /\ AfterRetryable(TimeoutExc)
    /\ UNCHANGED <<rr_max_retries, rr_attempt, rr_calls, rr_worker, rr_failure,
                   rr_raised, rr_terminal>>

\* time.sleep(self._retry_sleep(attempt)) returns.
RRWake ==
    /\ rr_pc = "sleeping"
    /\ rr_pc' = "loop"
    /\ UNCHANGED <<rr_max_retries, rr_attempt, rr_calls, rr_sleeps, rr_worker,
                   rr_last_exc, rr_failure, rr_raised, rr_terminal>>


(***************************************************************************)
(* LlmGate._call_with_retry                                                *)
(***************************************************************************)
NoLlmExc == [code |-> "none", upstream_status |-> NoStatus, context |-> "none"]

\* The exceptions an operation can end with, by what the handler looks at:
\*   cls     "http"              httpx.HTTPStatusError (it carries a status)
\*           "network"           httpx.TimeoutException / NetworkError / OSError
\*           "output_validation" LlmOutputValidationError raised inside op
\*           "config"            LlmConfigError raised inside op
\*           "other"             any other exception (it may carry an int status)
\*   status  what _extract_status finds (NoStatus for None)
LlmOpFailures ==
    [cls : {"http", "other"}, status : HttpStatuses]
    \cup [cls : {"network", "output_validation", "config", "other"}, status : {NoStatus}]

LlmOpSuccess == [cls |-> "success", status |-> NoStatus]
LlmOpDeadline == [cls |-> "deadline", status |-> NoStatus]

LlmExc(code, upstream_status, context) ==
    [code |-> code, upstream_status |-> upstream_status, context |-> context]

\* LlmTimeoutError("LLM request timed out.", context=context) -- its
\* constructor fixes upstream_status to 504.
LlmTimeoutExc == LlmExc("llm_timeout_error", 504, "label")

\* The branch of `except Exception as exc`: the exception the failure is
\* mapped to, and whether the branch raises at once (terminal) or records
\* last_exc and lets the loop go on.  context: "label" is the context
\* argument, "label_exc" is f"{context}: {exc}", "none" is no context.
MapLlmFailure_TerminalRetried(f) ==
    IF f.status = 429
      THEN [exc |-> LlmExc("llm_rate_limit_error", 429, "label"), terminal |-> FALSE]
    ELSE IF f.status \in {502, 503, 504}
      THEN [exc |-> LlmExc("llm_upstream_error", f.status, "label"), terminal |-> FALSE]
    ELSE IF f.status \in NON_RETRYABLE_STATUSES
      THEN [exc |-> LlmExc("llm_upstream_error", f.status, "none"), terminal |-> FALSE]
    ELSE IF f.cls = "network"
      THEN [exc |-> LlmExc("llm_upstream_error", NoStatus, "label_exc"), terminal |-> FALSE]
    ELSE IF f.cls = "output_validation"
      THEN [exc |-> LlmExc("llm_output_validation_error", NoStatus, "op"), terminal |-> TRUE]
    ELSE IF f.cls = "config"
      THEN [exc |-> LlmExc("llm_config_error", NoStatus, "op"), terminal |-> TRUE]
    ELSE [exc |-> LlmExc("llm_upstream_error", NoStatus, "label_exc"), terminal |-> TRUE]

MapLlmFailure(f) ==
    IF f.status = 429
      THEN [exc |-> LlmExc("llm_rate_limit_error", 429, "label"), terminal |-> FALSE]
    ELSE IF f.status \in {502, 503, 504}
      THEN [exc |-> LlmExc("llm_upstream_error", f.status, "label"), terminal |-> FALSE]
    ELSE IF f.status \in NON_RETRYABLE_STATUSES
      THEN [exc |-> LlmExc("llm_upstream_error", f.status, "none"), terminal |-> TRUE]
    ELSE IF f.cls = "network"
      THEN [exc |-> LlmExc("llm_upstream_error", NoStatus, "label_exc"), terminal |-> FALSE]
    ELSE IF f.cls = "output_validation"
      THEN [exc |-> LlmExc("llm_output_validation_error", NoStatus, "op"), terminal |-> TRUE]
    ELSE IF f.cls = "config"
      THEN [exc |-> LlmExc("llm_config_error", NoStatus, "op"), terminal |-> TRUE]
    ELSE [exc |-> LlmExc("llm_upstream_error", NoStatus, "label_exc"), terminal |-> TRUE]

\* executor.shutdown(wait=False, cancel_futures=True): whether the call
\* returns while the attempt's worker is in the given state.
ShutdownReturns_WhenWorkerDone(worker) == worker # "running"

ShutdownReturns(worker) == TRUE

LcrIdle ==
    /\ lcr_pc = "idle"
    /\ lcr_max_retries = 0
    /\ lcr_attempt = 0
    /\ lcr_calls = 0
    /\ lcr_sleeps = 0
    /\ lcr_worker = "none"
    /\ lcr_abandoned = 0
    /\ lcr_last_exc = NoLlmExc
    /\ lcr_failures = <<>>
    /\ lcr_raised = NoLlmExc

\* Entry of _call_with_retry: attempts = cfg.max_retries + 1, last_exc = None.
\* LlmGateConfig.validate rejects max_retries < 0, so the loop runs at least
\* once.
LcrInit ==
    /\ lcr_pc = "loop"
    /\ lcr_max_retries \in 0..MaxRetriesBound
    /\ lcr_attempt = 0
    /\ lcr_calls = 0
    /\ lcr_sleeps = 0
    /\ lcr_worker = "none"
    /\ lcr_abandoned = 0
    /\ lcr_last_exc = NoLlmExc
    /\ lcr_failures = <<>>
    /\ lcr_raised = NoLlmExc

\* for attempt in range(1, attempts + 1):
\*     executor = ThreadPoolExecutor(max_workers=1); future = executor.submit(op)
LcrStartAttempt ==
    /\ lcr_pc = "loop"
    /\ lcr_attempt < Attempts(lcr_max_retries)
    /\ lcr_attempt' = lcr_attempt + 1
    /\ lcr_calls' = lcr_calls + 1
    /\ lcr_worker' = "running"
    /\ lcr_pc' = "result"
    /\ UNCHANGED <<lcr_max_retries, lcr_sleeps, lcr_abandoned, lcr_last_exc,
                   lcr_failures, lcr_raised>>

\* future.result(...) returns within the deadline; shutdown; return result.
LcrOpReturns ==
    /\ lcr_pc = "result"
    /\ lcr_worker = "running"
    /\ lcr_worker' = "done"
    /\ lcr_failures' = Append(lcr_failures, LlmOpSuccess)
    /\ lcr_pc' = "returned"
    /\ UNCHANGED <<lcr_max_retries, lcr_attempt, lcr_calls, lcr_sleeps,
                   lcr_abandoned, lcr_last_exc, lcr_raised>>

\* The code after an except-branch that did not raise:
\* `if should_retry: time.sleep(...)`; when the loop's range is exhausted
\* the code after the loop raises last_exc.
LcrAfterRetryable(exc) ==
    /\ lcr_last_exc' = exc
    /\ IF ShouldRetry(lcr_attempt, Attempts(lcr_max_retries))
         THEN /\ lcr_pc' = "sleeping"
              /\ lcr_sleeps' = lcr_sleeps + 1
              /\ lcr_raised' = lcr_raised
         ELSE /\ lcr_pc' = "raised"
              /\ lcr_sleeps' = lcr_sleeps
              /\ lcr_raised' = exc

\* future.result(...) re-raises the operation's exception within the
\* deadline: `except Exception as exc`.
LcrOpRaises ==
    /\ lcr_pc = "result"
    /\ lcr_worker = "running"
    /\ \E f \in LlmOpFailures :
         /\ lcr_failures' = Append(lcr_failures, f)
         /\ lcr_worker' = "done"
         /\ IF MapLlmFailure(f).terminal
              THEN /\ lcr_raised' = MapLlmFailure(f).exc
                   /\ lcr_pc' = "raised"
                   /\ UNCHANGED <<lcr_last_exc, lcr_sleeps>>
              ELSE LcrAfterRetryable(MapLlmFailure(f).exc)
    /\ UNCHANGED <<lcr_max_retries, lcr_attempt, lcr_calls, lcr_abandoned>>

\* future.result(timeout=cfg.attempt_timeout_seconds) raises FuturesTimeout
\* while the worker is still inside op.
LcrDeadline ==
    /\ lcr_pc = "result"
    /\ lcr_worker = "running"
    /\ lcr_failures' = Append(lcr_failures, LlmOpDeadline)
    /\ lcr_pc' = "timed_out"
    /\ UNCHANGED <<lcr_max_retries, lcr_attempt, lcr_calls, lcr_sleeps, lcr_worker,
                   lcr_abandoned, lcr_last_exc, lcr_raised>>

\* `except FuturesTimeout`: future.cancel() (a running future is not
\* cancelled), executor.shutdown(wait=False, cancel_futures=True),
\* last_exc = LlmTimeoutError(...), should_retry = attempt < attempts.
LcrTimeoutHandled ==
    /\ lcr_pc = "timed_out"
    /\ ShutdownReturns(lcr_worker)
    /\ lcr_abandoned' = IF lcr_worker = "running" THEN lcr_abandoned + 1 ELSE lcr_abandoned
    /\ lcr_worker' = "none"
    /\ LcrAfterRetryable(LlmTimeoutExc)
    /\ UNCHANGED <<lcr_max_retries, lcr_attempt, lcr_calls, lcr_failures>>

\* An operation that outlived its attempt's deadline ends on its own; its
\* value or exception is dropped.
LcrLateWorkerEnds ==
    /\ \/ /\ lcr_pc = "timed_out"
          /\ lcr_worker = "running"
          /\ lcr_worker' = "done"
          /\ UNCHANGED lcr_abandoned
       \/ /\ lcr_abandoned > 0
          /\ lcr_abandoned' = lcr_abandoned - 1
          /\ UNCHANGED lcr_worker
    /\ UNCHANGED <<lcr_pc, lcr_max_retries, lcr_attempt, lcr_calls, lcr_sleeps,
                   lcr_last_exc, lcr_failures, lcr_raised>>

\* time.sleep(cfg.retry_backoff_seconds[backoff_idx] + jitter) returns.
LcrWake ==
    /\ lcr_pc = "sleeping"
    /\ lcr_pc' = "loop"
    /\ UNCHANGED <<lcr_max_retries, lcr_attempt, lcr_calls, lcr_sleeps, lcr_worker,
                   lcr_abandoned, lcr_last_exc, lcr_failures, lcr_raised>>


(***************************************************************************)
(* Category extraction: GithubGate.get_documentation, get_tests, get_code, *)
(* get_build_and_package_data and _collect_files_from_tree_paths.          *)
(* A file is modelled by its byte_size; a candidate by the size the tree   *)
(* reports for it (0 when the tree gives none) and by what its download    *)
(* yields.                                                                 *)
(***************************************************************************)
RECURSIVE SumSeq(_)
SumSeq(q) == IF q = <<>> THEN 0 ELSE Head(q) + SumSeq(Tail(q))

Min2(a, b) == IF a <= b THEN a ELSE b
Max2(a, b) == IF a >= b THEN a ELSE b

Categories == {"documentation", "tests", "build_package", "code"}

\* max_files / max_duration_seconds are passed only by get_code and
\* get_build_and_package_data.
HasFileCap(cat) == cat \in {"build_package", "code"}
HasStageDeadline(cat) == cat \in {"build_package", "code"}

\* `if used >= total_limit: break`
TotalReached(used, total_limit) == used >= total_limit

\* `if max_files is not None and len(selected) >= max_files: break`

FilesReached(cat, picked, max_files) == HasFileCap(cat) /\ picked >= max_files

\* `if entry.size and entry.size > single_limit: continue`
TreeSizeOverSingle(entry_size, single_limit) ==
    entry_size # 0 /\ entry_size > single_limit

\* `if entry.size and used + entry.size > total_limit: continue`
TreeSizeOverTotal(used, entry_size, total_limit) ==
    entry_size # 0 /\ used + entry_size > total_limit

\* `if item.byte_size > single_limit: continue`
DownloadedOverSingle(byte_size, single_limit) == byte_size > single_limit

\* `if used + item.byte_size > total_limit: continue`
DownloadedOverTotal_Unchecked(used, byte_size, total_limit) == FALSE

DownloadedOverTotal(used, byte_size, total_limit) == used + byte_size > total_limit

\* The category's total-bytes cap in GithubGateLimits.
CategoryCap(cat, limits) == limits.total

\* The events of a category extraction on which the code appends to
\* self.warnings: the three homepage skips (lines 242, 248, 260; event
\* homepage_skipped), the homepage trim (253), max_files_reached (444),
\* max_duration_reached (449), tree size over max_single_file_bytes (457),
\* download failure (465), downloaded size over max_single_file_bytes (469).
\* The `break` on used >= total_limit (442) and the two `continue`s on the
\* total-bytes cap (460, 472) append nothing.
WarnedEvents ==
    {"homepage_skipped", "homepage_trimmed", "break_max_files", "break_deadline",
     "skip_tree_single", "skip_download_failed", "skip_downloaded_single"}

\* self.warnings after a step that ended in `event`
WarningsAfter(warnings, event) ==
    IF event \in WarnedEvents THEN Append(warnings, event) ELSE warnings

\* what the text of a warning names: the path of the candidate, the
\* homepage URL, or the category
WarningNames(event) ==
    CASE event \in {"skip_tree_single", "skip_download_failed",
                    "skip_downloaded_single"} -> "path"
      [] event \in {"homepage_skipped", "homepage_trimmed"} -> "homepage"
      [] OTHER -> "category"

\* what an HTTP GET of a file or page can give: text, bytes with a NUL
\* among them, bytes that are not UTF-8, or a failed request
Payloads == {"text", "nul", "not_utf8", "fetch_error"}

DownloadError_NulAccepted(payload) ==
    CASE payload = "not_utf8" -> "github_response_shape_error"
      [] payload = "fetch_error" -> "github_upstream_error"
      [] OTHER -> ""

\* _download_tree_file and _download_external_page: the code of the error
\* raised for the payload, "" when a FileContent is returned
DownloadError(payload) ==
    CASE payload = "nul" -> "github_response_shape_error"
      [] payload = "not_utf8" -> "github_response_shape_error"
      [] payload = "fetch_error" -> "github_upstream_error"
      [] OTHER -> ""

Fetch(subject, payload) ==
    [subject |-> subject, payload |-> payload, error |-> DownloadError(payload)]

NoFetch == [subject |-> "none", payload |-> "none", error |-> ""]

\* The durations of a category stage: its own max_duration_seconds (stage),
\* counted from the start of _collect_files_from_tree_paths, and
\* max_total_fetch_duration_seconds (total), counted from the start of
\* _fetch_all_entities.  A stage is entered with neither elapsed.
NothingElapsed == [stage |-> FALSE, total |-> FALSE]

\* the clock readings that can follow `elapsed`: time does not run backwards,
\* and only a category that is given max_duration_seconds has a duration of
\* its own
LaterReadings(cat, elapsed) ==
    {now \in [stage : BOOLEAN, total : BOOLEAN] :
        /\ elapsed.stage => now.stage
        /\ elapsed.total => now.total
        /\ now.stage => HasStageDeadline(cat)}

\* lines 446-452: `elapsed_seconds >= max_duration_seconds`, tested only
\* when max_duration_seconds is not None
StageDeadlineHit(cat, now) == HasStageDeadline(cat) /\ now.stage

ColIdle ==
    /\ col_pc = "idle"
    /\ col_category = "tests"
    /\ col_limits = [single |-> 1, total |-> 1, max_files |-> 1]
    /\ col_n = 0
    /\ col_idx = 0
    /\ col_total_limit = 0
    /\ col_used = 0
    /\ col_picked = 0
    /\ col_files = <<>>
    /\ col_paths = <<>>
    /\ col_last = "none"
    /\ col_warnings = <<>>
    /\ col_fetch = NoFetch
    /\ col_elapsed = NothingElapsed

\* a path by its first directory ("" at the root) and its file name, both
\* in lower case
Path(dir, filename) == [dir |-> dir, filename |-> filename]

\* path of the FileContent _download_external_page builds
AboutHomepage == Path("", "about-homepage")

\* looks_like_doc_path (selectors.py 135-146)
LooksLikeDocPath(path) ==
    \/ path.dir \in {"docs", "documentation"}
    \/ path.filename \in {"readme", "readme.md"}      \* startswith("readme")
    \/ path.filename \in {"contributing.md", "contributing.rst", "setup.md",
                          "installation.md", "install.md"}

\* blobs of the tree, in sorted_bfs order
TreeBlobs ==
    <<Path("", "about-homepage"), Path("", "install.md"), Path("", "main.py"),
      Path("", "readme.md"), Path("docs", "about-homepage"),
      Path("docs", "guide.md"), Path("documentation", "index.md"),
      Path("src", "about-homepage"), Path("src", "app.py"),
      Path("src", "util.py")>>

\* ordered_paths of get_documentation
DocOrderedPaths == SelectSeq(TreeBlobs, LooksLikeDocPath)

\* ordered_paths[idx - 1] of the category
CandidatePath(category, idx) ==
    IF category = "documentation" THEN DocOrderedPaths[idx]
    ELSE SelectSeq(TreeBlobs, LAMBDA path : ~LooksLikeDocPath(path))[idx]

\* Entry of a category extraction: selected_files = [], used_bytes = 0.
ColInit ==
    /\ col_category \in Categories
    /\ col_limits \in [single : 1..MaxSingleLimit, total : 1..MaxTotalLimit,
                       max_files : 1..MaxFilesLimit]
    /\ col_n \in 0..MaxCandidates
    /\ col_pc = IF col_category = "documentation" THEN "homepage" ELSE "loop"
    /\ col_idx = 0
    /\ col_total_limit = col_limits.total
    /\ col_used = 0
    /\ col_picked = 0
    /\ col_files = <<>>
    /\ col_paths = <<>>
    /\ col_last = "none"
    /\ col_warnings = <<>>
    /\ col_fetch = NoFetch
    /\ col_elapsed = NothingElapsed

\* _truncate_file_to_max_bytes(item, max_bytes): the byte sizes the result can
\* have.  A file within max_bytes is returned as it is; a larger one is cut
\* at max_bytes and decoded with errors="ignore", which drops the bytes of a
\* character cut in the middle (at most 3).
TruncatedSizes_Uncut(byte_size, max_bytes) == {byte_size}

TruncatedSizes(byte_size, max_bytes) ==
    IF max_bytes <= 0 THEN {0}
    ELSE IF byte_size <= max_bytes THEN {byte_size}
    ELSE Max2(0, max_bytes - 3)..max_bytes

\* get_documentation, up to the call of _collect_files_from_tree_paths:
\* the optional homepage page, then remaining_limit.
ColHomepage ==
    /\ col_pc = "homepage"
    /\ col_elapsed' \in LaterReadings(col_category, col_elapsed)
    /\ \E has_homepage \in BOOLEAN,
          payload \in Payloads,
          page \in 0..MaxFileBytes + 1 :
         LET allowed == Min2(col_limits.single, Max2(0, col_limits.total - 0)) IN
         /\ col_fetch' = IF has_homepage THEN Fetch("homepage", payload) ELSE NoFetch
         /\ IF ~has_homepage \/ DownloadError(payload) # "" \/ allowed <= 0
              THEN /\ col_files' = col_files
                   /\ col_paths' = col_paths
                   /\ col_last' = IF ~has_homepage THEN "no_homepage" ELSE "homepage_skipped"
              ELSE \E kept \in TruncatedSizes(page, allowed) :
                     IF kept <= 0
                       THEN /\ col_files' = col_files
                            /\ col_paths' = col_paths
                            /\ col_last' = "homepage_skipped"
                       ELSE /\ col_files' = Append(col_files, kept)
                            /\ col_paths' = Append(col_paths, AboutHomepage)
                            /\ col_last' = IF kept < page THEN "homepage_trimmed"
                                                         ELSE "homepage_added"
    /\ col_total_limit' = Max2(0, col_limits.total - SumSeq(col_files'))
    /\ col_pc' = "loop"
    /\ col_warnings' = WarningsAfter(col_warnings, col_last')
    /\ UNCHANGED <<col_category, col_limits, col_n, col_idx, col_used, col_picked>>

\* One pass of `for path in ordered_paths` in _collect_files_from_tree_paths.
ColStep ==
    /\ col_pc = "loop"
    /\ col_idx < col_n
    /\ \E in_tree_map \in BOOLEAN,
          has_url \in BOOLEAN,
          entry_size \in 0..MaxFileBytes,
          payload \in Payloads,
          download \in 0..MaxFileBytes,
          now \in LaterReadings(col_category, col_elapsed) :
         /\ col_elapsed' = now
         /\ col_fetch' =
               IF /\ in_tree_map
                  /\ ~TotalReached(col_used, col_total_limit)
                  /\ ~FilesReached(col_category, col_picked, col_limits.max_files)
                  /\ ~StageDeadlineHit(col_category, now)
                  /\ has_url
                  /\ ~TreeSizeOverSingle(entry_size, col_limits.single)
                  /\ ~TreeSizeOverTotal(col_used, entry_size, col_total_limit)
               THEN Fetch("path", payload) ELSE NoFetch
         /\ IF ~in_tree_map
              THEN /\ col_idx' = col_idx + 1
                   /\ col_pc' = "loop"
                   /\ col_last' = "skip_not_in_tree_map"
                   /\ UNCHANGED <<col_used, col_picked, col_files, col_paths>>
            ELSE IF TotalReached(col_used, col_total_limit)
              THEN /\ col_pc' = "done"
                   /\ col_last' = "break_total"
                   /\ UNCHANGED <<col_idx, col_used, col_picked, col_files, col_paths>>
            ELSE IF FilesReached(col_category, col_picked, col_limits.max_files)
              THEN /\ col_pc' = "done"
                   /\ col_last' = "break_max_files"
                   /\ UNCHANGED <<col_idx, col_used, col_picked, col_files, col_paths>>
            ELSE IF StageDeadlineHit(col_category, now)
              THEN /\ col_pc' = "done"
                   /\ col_last' = "break_deadline"
                   /\ UNCHANGED <<col_idx, col_used, col_picked, col_files, col_paths>>
            ELSE
              /\ col_idx' = col_idx + 1
              /\ col_pc' = "loop"
              /\ IF ~has_url
                   THEN /\ col_last' = "skip_no_download_url"
                        /\ UNCHANGED <<col_used, col_picked, col_files, col_paths>>
                 ELSE IF TreeSizeOverSingle(entry_size, col_limits.single)
                   THEN /\ col_last' = "skip_tree_single"
                        /\ UNCHANGED <<col_used, col_picked, col_files, col_paths>>
                 ELSE IF TreeSizeOverTotal(col_used, entry_size, col_total_limit)
                   THEN /\ col_last' = "skip_tree_total"
                        /\ UNCHANGED <<col_used, col_picked, col_files, col_paths>>
                 ELSE IF DownloadError(payload) # ""
                   THEN /\ col_last' = "skip_download_failed"
                        /\ UNCHANGED <<col_used, col_picked, col_files, col_paths>>
                 ELSE IF DownloadedOverSingle(download, col_limits.single)
                   THEN /\ col_last' = "skip_downloaded_single"
                        /\ UNCHANGED <<col_used, col_picked, col_files, col_paths>>
                 ELSE IF DownloadedOverTotal(col_used, download, col_total_limit)
                   THEN /\ col_last' = "skip_downloaded_total"
                        /\ UNCHANGED <<col_used, col_picked, col_files, col_paths>>
                 ELSE /\ col_files' = Append(col_files, download)
                      /\ col_paths' = Append(col_paths, CandidatePath(col_category, col_idx + 1))
                      /\ col_picked' = col_picked + 1
                      /\ col_used' = col_used + download
                      /\ col_last' = "selected"
    /\ col_warnings' = WarningsAfter(col_warnings, col_last')
    /\ UNCHANGED <<col_category, col_limits, col_n, col_total_limit>>

\* ordered_paths is exhausted: `return selected`.
ColReturn ==
    /\ col_pc = "loop"
    /\ col_idx >= col_n
    /\ col_pc' = "done"
    /\ col_last' = "exhausted"
    /\ col_fetch' = NoFetch
    /\ UNCHANGED <<col_category, col_limits, col_n, col_idx, col_total_limit,
                   col_used, col_picked, col_files, col_paths, col_warnings, col_elapsed>>

(***************************************************************************)
(* Context-budget processor (repo_processor/processor.py).                 *)
(*                                                                         *)
(* A section's content is kept by what the truncation code looks at:       *)
(*   kind "text"      a run of `chars` characters of `width` bytes each,   *)
(*                    none of them whitespace                              *)
(*   kind "not_found" the literal "Not found"                              *)
(*   kind "tree"      lines, `items` holding each line's byte length       *)
(*   kind "blocks"    "## File:" blocks, `items` holding each block's body *)
(*                    byte length                                          *)
(* and a processed section by its byte length (raw) and the byte length of *)
(* its stripped form (out), which is what render_processed_markdown emits. *)
(***************************************************************************)
BASELINE_FIELDS == <<"repository_metadata", "language_stats", "directory_tree", "readme">>
OPTIONAL_FIELDS == <<"documentation", "build_and_package_data", "tests", "code">>
CORE_FIELDS == BASELINE_FIELDS \o OPTIONAL_FIELDS

SeqRange(s) == {s[i] : i \in 1..Len(s)}

\* len("Not found") and len("Truncated to zero")
NotFoundBytes == 9
TruncatedToZeroBytes == 17
\* len of the eight headers, each followed by "\n", joined by "\n\n", without
\* the final "\n": what _body_budget subtracts
EmptyMarkdownBytes == 135
\* the same with the final "\n" that render_processed_markdown appends
RenderOverheadBytes == 136
\* a file block as _render_file_block writes it with a one-character path,
\* source n/a, a two-digit size and a one-digit token estimate: the lines
\* before the fence, the header up to and including "```text\n", the suffix
FileHeaderLinesBytes == 63
FileHeaderBytes == 72
FileSuffixBytes == 4
\* positions of the whitespace characters within the lines before the fence
FileHeaderWhitespace == {3, 9, 11, 13, 21, 25, 27, 32, 39, 42, 44, 54, 62}
\* position of the blank in "Not found"
NotFoundWhitespace == {4}

TextContent(chars, width) ==
    [kind |-> "text", chars |-> chars, width |-> width, items |-> <<>>]
NotFoundContent ==
    [kind |-> "not_found", chars |-> NotFoundBytes, width |-> 1, items |-> <<>>]
TreeContent(lines) ==
    [kind |-> "tree", chars |-> 0, width |-> 1, items |-> lines]
BlocksContent(bodies) ==
    [kind |-> "blocks", chars |-> 0, width |-> 1, items |-> bodies]

Value(raw, out) == [raw |-> raw, out |-> out]
TruncatedToZero == Value(TruncatedToZeroBytes, TruncatedToZeroBytes)

BlockBytes(body) == FileHeaderBytes + body + FileSuffixBytes

\* _utf8_len of a section as parse_extraction_markdown hands it over
Utf8Len(c) ==
    CASE c.kind = "text" -> c.chars * c.width
      [] c.kind = "not_found" -> NotFoundBytes
      [] c.kind = "tree" -> SumSeq(c.items) + (Len(c.items) - 1)
      [] c.kind = "blocks" ->
            SumSeq([i \in 1..Len(c.items) |-> BlockBytes(c.items[i])])
                + (Len(c.items) - 1)

\* length of s[:k].rstrip() for a string whose whitespace sits at ws
Stripped(k, ws) ==
    LET solid == {j \in 1..k : j \notin ws}
    IN  IF solid = {} THEN 0 ELSE CHOOSE j \in solid : \A i \in solid : i <= j

\* _truncate_utf8_prefix on a text section: bytes kept (a character cut in
\* the middle is dropped by errors="ignore")
TruncateUtf8Prefix(c, max_bytes) ==
    IF max_bytes <= 0 THEN 0
    ELSE IF Utf8Len(c) <= max_bytes THEN Utf8Len(c)
    ELSE (max_bytes \div c.width) * c.width

\* _truncate_text
TruncateText(c, max_bytes) ==
    IF max_bytes <= 0 THEN TruncatedToZero
    ELSE LET kept == TruncateUtf8Prefix(c, max_bytes)
             ws == IF c.kind = "not_found" THEN NotFoundWhitespace ELSE {}
         IN  IF Stripped(kept, ws) = 0 THEN TruncatedToZero
             ELSE Value(kept, Stripped(kept, ws))

\* lines 304-307: the line goes into `selected`; line_bytes is its length
TreeTakes_NoSeparator(used, selected, line_bytes, max_bytes) ==
    ~(used + line_bytes > max_bytes)

TreeTakes(used, selected, line_bytes, max_bytes) ==
    LET sep_bytes == IF selected # <<>> THEN 1 ELSE 0
    IN  ~(used + sep_bytes + line_bytes > max_bytes)

\* _truncate_directory_tree: the loop over lines, then the join
RECURSIVE TreeWalk(_, _, _, _, _)
TreeWalk(lines, i, used, selected, max_bytes) ==
    IF i > Len(lines) THEN [used |-> used, selected |-> selected]
    ELSE IF ~TreeTakes(used, selected, lines[i], max_bytes)
    THEN [used |-> used, selected |-> selected]
    ELSE TreeWalk(lines, i + 1,
                  used + (IF selected # <<>> THEN 1 ELSE 0) + lines[i],
                  Append(selected, lines[i]), max_bytes)

\* content.splitlines(): the lengths of the lines
TreeLines(c) == IF c.kind = "tree" THEN c.items ELSE <<Utf8Len(c)>>

\* `selected` when _truncate_directory_tree returns
SelectedLines(c, max_bytes) ==
    IF max_bytes <= 0 THEN <<>>
    ELSE TreeWalk(TreeLines(c), 1, 0, <<>>, max_bytes).selected

TruncateDirectoryTree(c, max_bytes) ==
    IF max_bytes <= 0 THEN TruncatedToZero
    ELSE LET w == TreeWalk(TreeLines(c), 1, 0, <<>>, max_bytes)
             joined == SumSeq(w.selected) + (Len(w.selected) - 1)
         IN  IF w.selected = <<>> THEN TruncatedToZero ELSE Value(joined, joined)

\* _partial_block for a block with the given body and `max_bytes` left
PartialBlock(body, max_bytes) ==
    IF max_bytes <= 0 THEN Value(0, 0)
    ELSE IF FileHeaderBytes + FileSuffixBytes > max_bytes
    THEN LET k == Min2(FileHeaderLinesBytes, max_bytes)
         IN  Value(k, Stripped(k, FileHeaderWhitespace))
    ELSE LET body_limit == max_bytes - FileHeaderBytes - FileSuffixBytes
             n == FileHeaderBytes + Min2(body, body_limit) + FileSuffixBytes
         IN  Value(n, n)

\* _truncate_file_blocks: the loop over blocks; `sel` is the byte length of
\* every entry of `selected` (the last one already stripped on the right)
RECURSIVE BlockWalk(_, _, _, _, _)
BlockWalk(bodies, i, used, sel, max_bytes) ==
    IF i > Len(bodies) THEN sel
    ELSE IF used + BlockBytes(bodies[i]) <= max_bytes
    THEN BlockWalk(bodies, i + 1, used + BlockBytes(bodies[i]),
                   Append(sel, BlockBytes(bodies[i])), max_bytes)
    ELSE LET partial == PartialBlock(bodies[i], max_bytes - used)
         IN  IF partial.raw > 0 THEN Append(sel, partial.out) ELSE sel

TruncateFileBlocks(c, max_bytes) ==
    IF max_bytes <= 0 THEN TruncatedToZero
    ELSE IF c.kind # "blocks" THEN TruncateText(c, max_bytes)
    ELSE LET sel == BlockWalk(c.items, 1, 0, <<>>, max_bytes)
             combined == SumSeq(sel) + 2 * (Len(sel) - 1)
         IN  IF Len(sel) = 0 THEN TruncatedToZero ELSE Value(combined, combined)

\* _truncate_for_field: the new value and the flag
TruncateForField(field_name, c, max_bytes) ==
    IF max_bytes <= 0 THEN [value |-> TruncatedToZero, truncated |-> TRUE]
    ELSE IF Utf8Len(c) <= max_bytes
    THEN [value |-> Value(Utf8Len(c), Utf8Len(c)), truncated |-> FALSE]
    ELSE IF field_name = "directory_tree"
    THEN [value |-> TruncateDirectoryTree(c, max_bytes), truncated |-> TRUE]
    ELSE IF field_name \in SeqRange(OPTIONAL_FIELDS)
    THEN [value |-> TruncateFileBlocks(c, max_bytes), truncated |-> TRUE]
    ELSE [value |-> TruncateText(c, max_bytes), truncated |-> TRUE]

RECURSIVE SumOver(_, _)
SumOver(S, f) ==
    IF S = {} THEN 0
    ELSE LET x == CHOOSE y \in S : TRUE IN f[x] + SumOver(S \ {x}, f)

(***************************************************************************)
(* Python floats.  share_float (processor.py line 385) is a binary64: the  *)
(* weights are the doubles of the literals of the configuration, and the   *)
(* product, the sum and the quotient are each rounded to nearest, ties to  *)
(* even.  A natural number below 2^71 is kept as three limbs <<h, m, l>>   *)
(* = h * 2^40 + m * 2^20 + l; a double is m * 2^e with 2^52 <= m < 2^53,   *)
(* or zero.  Subnormals, infinities and NaN do not arise for weights in    *)
(* (0, 1] and byte counts below 2^11.                                      *)
(***************************************************************************)
Limb == 1048576

BigZero == <<0, 0, 0>>
BigOne == <<0, 0, 1>>
Two52 == <<4096, 0, 0>>
Two53 == <<8192, 0, 0>>
Two54 == <<16384, 0, 0>>

BigNorm(h, m, l) ==
    <<h + (m + l \div Limb) \div Limb, (m + l \div Limb) % Limb, l % Limb>>
BigAdd(x, y) == BigNorm(x[1] + y[1], x[2] + y[2], x[3] + y[3])
BigTimes(x, k) == BigNorm(x[1] * k, x[2] * k, x[3] * k)
BigLess(x, y) ==
    \/ x[1] < y[1]
    \/ x[1] = y[1] /\ x[2] < y[2]
    \/ x[1] = y[1] /\ x[2] = y[2] /\ x[3] < y[3]
\* x - y for x >= y
BigSub(x, y) ==
    LET bl == IF x[3] < y[3] THEN 1 ELSE 0
        bm == IF x[2] - bl < y[2] THEN 1 ELSE 0
    IN  <<x[1] - y[1] - bm, x[2] - bl - y[2] + bm * Limb, x[3] - y[3] + bl * Limb>>
BigHalf(x) ==
    <<x[1] \div 2, x[2] \div 2 + (x[1] % 2) * (Limb \div 2),
      x[3] \div 2 + (x[2] % 2) * (Limb \div 2)>>
BigOdd(x) == x[3] % 2 = 1

\* Step applied n times to s
RECURSIVE Iterate(_, _, _)
Iterate(Step(_), s, n) ==
    IF n <= 0 THEN s
    ELSE IF n = 1 THEN CHOOSE r \in {Step(c) : c \in {s}} : TRUE
    ELSE CHOOSE r \in {Iterate(Step, c, n - n \div 2) :
                          c \in {Iterate(Step, s, n \div 2)}} : TRUE

ShlStep(x) == BigAdd(x, x)
BigShl(x, n) == Iterate(ShlStep, x, n)

F64(m, e) == [m |-> m, e |-> e]
F64Zero == F64(BigZero, 0)

\* s = <<x, e, sticky>>: one shift of x towards 54 bits; sticky tells that a
\* nonzero bit was shifted out
NormStep(s) ==
    IF s[1] = BigZero THEN s
    ELSE IF ~BigLess(s[1], Two54)
    THEN <<BigHalf(s[1]), s[2] + 1, s[3] \/ BigOdd(s[1])>>
    ELSE IF BigLess(s[1], Two53) THEN <<BigAdd(s[1], s[1]), s[2] - 1, s[3]>>
    ELSE s

\* 54 bits to 53, to nearest, ties to even
RoundNorm(s) ==
    IF s[1] = BigZero THEN F64Zero
    ELSE LET y == BigHalf(s[1])
             z == IF BigOdd(s[1]) /\ (s[3] \/ BigOdd(y)) THEN BigAdd(y, BigOne)
                  ELSE y
         IN  IF z = Two53 THEN F64(Two52, s[2] + 2) ELSE F64(z, s[2] + 1)

\* the double nearest to x * 2^e (plus a little, if sticky); `shifts` bounds
\* the distance of x from 54 bits
F64Round(x, e, sticky, shifts) ==
    CHOOSE r \in {RoundNorm(c) :
                     c \in {Iterate(NormStep, <<x, e, sticky>>, shifts)}} : TRUE

\* int * float, for 0 <= k < 2^11
F64TimesInt(k, d) == F64Round(BigTimes(d.m, k), d.e, FALSE, 12)

\* float + float
F64Add(a, b) ==
    IF a.m = BigZero THEN b
    ELSE IF b.m = BigZero THEN a
    ELSE IF a.e >= b.e
    THEN F64Round(BigAdd(BigShl(a.m, a.e - b.e), b.m), b.e, FALSE, a.e - b.e + 2)
    ELSE F64Round(BigAdd(BigShl(b.m, b.e - a.e), a.m), a.e, FALSE, b.e - a.e + 2)

\* s = <<quotient, remainder, divisor>>: one more bit of the quotient
DivStep(s) ==
    IF BigLess(s[2], s[3])
    THEN <<BigAdd(s[1], s[1]), BigAdd(s[2], s[2]), s[3]>>
    ELSE <<BigAdd(BigAdd(s[1], s[1]), BigOne), BigTimes(BigSub(s[2], s[3]), 2),
           s[3]>>

\* float / float, b nonzero
F64Div(a, b) ==
    IF a.m = BigZero THEN a
    ELSE CHOOSE r \in {F64Round(q[1], a.e - b.e - 54, q[2] # BigZero, 1) :
                          q \in {Iterate(DivStep, <<BigZero, a.m, b.m>>, 55)}} : TRUE

\* math.floor(d), and d - math.floor(d) in units of 2^-60 (the subtraction
\* is exact), for 2^-8 <= d < 2^11
F64Split(d) ==
    CHOOSE r \in {[floor |-> x[1] \div Limb, frac |-> <<x[1] % Limb, x[2], x[3]>>] :
                     x \in {BigShl(d.m, d.e + 60)}} : TRUE

\* the doubles of the weight literals 0.10, 0.20, 0.40, 0.45 and 1.0, named
\* by their percentage
F64Literal(percent) ==
    CASE percent = 0 -> F64Zero
      [] percent = 10 -> F64(<<6553, 629145, 629146>>, -56)
      [] percent = 20 -> F64(<<6553, 629145, 629146>>, -55)
      [] percent = 40 -> F64(<<6553, 629145, 629146>>, -54)
      [] percent = 45 -> F64(<<7372, 838860, 838861>>, -54)
      [] percent = 100 -> F64(Two52, -52)

\* str ordering of the category names, the tie-break of fractions.sort
NameRank(name) ==
    CASE name = "build_and_package_data" -> 1
      [] name = "code" -> 2
      [] name = "documentation" -> 3
      [] name = "tests" -> 4

\* sum(weights[name] for name in unsatisfied), line 377.  Python walks the
\* set in an order of its own; for the weight maps used here every order
\* gives the same double, and the names are taken in str order
RECURSIVE TotalWeight(_, _)
TotalWeight(S, weights) ==
    IF S = {} THEN F64Zero
    ELSE LET last == CHOOSE c \in S : \A d \in S : NameRank(d) <= NameRank(c)
         IN  F64Add(TotalWeight(S \ {last}, weights), F64Literal(weights[last]))

\* lines 385 and 390: per name, floor and fractional part of share_float
FloatShares(unsatisfied, remaining, weights) ==
    UNION {{[name |-> name,
             share |-> F64Split(F64Div(F64TimesInt(remaining,
                                                   F64Literal(weights[name])),
                                       total_weight))] : name \in unsatisfied} :
           total_weight \in {TotalWeight(unsatisfied, weights)}}

\* key=lambda item: (-item[0], item[1]) on (fraction, name)
SortsBefore(c, d, frac) ==
    \/ BigLess(frac[d], frac[c])
    \/ frac[c] = frac[d] /\ NameRank(c) < NameRank(d)

RECURSIVE SortedNames(_, _)
SortedNames(S, frac) ==
    IF S = {} THEN <<>>
    ELSE LET first == CHOOSE c \in S : \A d \in S \ {c} : SortsBefore(c, d, frac)
         IN  <<first>> \o SortedNames(S \ {first}, frac)

\* the second loop of a pass: one extra byte each, in sorted order
RECURSIVE HandOutLeftover(_, _, _, _, _, _)
HandOutLeftover(order, i, leftover, increments, allocation, category_sizes) ==
    IF i > Len(order) \/ leftover <= 0 THEN increments
    ELSE LET name == order[i]
             want == category_sizes[name] - allocation[name] - increments[name]
         IN  IF want <= 0
             THEN HandOutLeftover(order, i + 1, leftover, increments,
                                  allocation, category_sizes)
             ELSE HandOutLeftover(order, i + 1, leftover - 1,
                                  [increments EXCEPT ![name] = @ + 1],
                                  allocation, category_sizes)

\* lines 380-402 once the shares are computed
PassFromShares(shares, allocation, unsatisfied, remaining, category_sizes) ==
    LET ShareOf(name) == (CHOOSE s \in shares : s.name = name).share
        share_int ==
            [name \in unsatisfied |->
                Max2(0, Min2(category_sizes[name] - allocation[name],
                             ShareOf(name).floor))]
        frac == [name \in unsatisfied |-> ShareOf(name).frac]
    IN  HandOutLeftover(SortedNames(unsatisfied, frac), 1,
                        remaining - SumOver(unsatisfied, share_int), share_int,
                        allocation, category_sizes)

PassIncrements_Uncapped(allocation, unsatisfied, remaining, category_sizes, weights) ==
    [name \in unsatisfied |->
        (remaining * weights[name]) \div SumOver(unsatisfied, weights)]

PassIncrements_FloorOnly(allocation, unsatisfied, remaining, category_sizes, weights) ==
    [name \in unsatisfied |->
        Max2(0, Min2(category_sizes[name] - allocation[name],
                     (remaining * weights[name]) \div SumOver(unsatisfied, weights)))]

\* one pass of the while loop of _allocate_optional_bytes: the floor shares,
\* then the leftover bytes
PassIncrements(allocation, unsatisfied, remaining, category_sizes, weights) ==
    CHOOSE increments \in
        {PassFromShares(shares, allocation, unsatisfied, remaining, category_sizes) :
            shares \in {FloatShares(unsatisfied, remaining, weights)}} : TRUE

AddIncrements(allocation, unsatisfied, increments) ==
    [name \in DOMAIN allocation |->
        IF name \in unsatisfied THEN allocation[name] + increments[name]
        ELSE allocation[name]]

\* the while loop of _allocate_optional_bytes
RECURSIVE AllocLoop(_, _, _, _, _)
\* the end of a pass: stop without progress, else go round again
AllocNext(allocation, unsatisfied, remaining, category_sizes, weights, grown) ==
    IF grown = allocation THEN allocation
    ELSE AllocLoop(grown,
                   {name \in unsatisfied : grown[name] < category_sizes[name]},
                   remaining - (SumOver(DOMAIN grown, grown)
                                    - SumOver(DOMAIN allocation, allocation)),
                   category_sizes, weights)

AllocLoop(allocation, unsatisfied, remaining, category_sizes, weights) ==
    IF remaining <= 0 \/ unsatisfied = {} THEN allocation
    ELSE IF SumOver(unsatisfied, weights) <= 0 THEN allocation
    ELSE AllocNext(allocation, unsatisfied, remaining, category_sizes, weights,
                   AddIncrements(allocation, unsatisfied,
                                 PassIncrements(allocation, unsatisfied, remaining,
                                                category_sizes, weights)))

AllocateOptionalBytes(available_bytes, category_sizes, weights) ==
    AllocLoop([name \in DOMAIN category_sizes |-> 0],
              {name \in DOMAIN category_sizes :
                  category_sizes[name] > 0 /\ weights[name] > 0},
              Max2(0, available_bytes), category_sizes, weights)

\* ContextWindowLimitBookkeeper.max_repo_data_bytes; the ratio is a fraction
MaxRepoDataBytes(cfg) ==
    (cfg.model_context_window_tokens * cfg.max_repo_data_ratio_in_prompt.num
        * cfg.bytes_per_token_estimate) \div cfg.max_repo_data_ratio_in_prompt.den

BodyBudget(max_repo_bytes) == Max2(0, max_repo_bytes - EmptyMarkdownBytes)

\* _build_initial_sections
InitialSections(doc) ==
    [field \in SeqRange(CORE_FIELDS) |-> Value(Utf8Len(doc[field]), Utf8Len(doc[field]))]

\* output_total_utf8_bytes as _build_processed computes it
RenderedBytes(sections) ==
    RenderOverheadBytes
        + SumOver(SeqRange(CORE_FIELDS), [field \in SeqRange(CORE_FIELDS) |-> sections[field].out])

BaselineTotal(sections) ==
    SumOver(SeqRange(BASELINE_FIELDS),
            [field \in SeqRange(BASELINE_FIELDS) |-> sections[field].raw])

\* sections[field] and truncation_notes after a _truncate_for_field call
Truncated(st, field, t) ==
    [sections |-> [st.sections EXCEPT ![field] = t.value],
     notes |-> IF t.truncated THEN Append(st.notes, field) ELSE st.notes]

BaselineShrinkOrder_ReadmeFirst ==
    <<"readme", "directory_tree", "language_stats", "repository_metadata">>

\* the order in which process_markdown shrinks the baseline sections
BaselineShrinkOrder == <<"directory_tree", "readme", "language_stats", "repository_metadata">>

\* tree_allowance, readme_allowance, lang_allowance, meta_allowance
BaselineAllowance(st, field, body_budget) ==
    Max2(0, body_budget - (BaselineTotal(st.sections) - st.sections[field].raw))

\* one of the four baseline steps: the section cut down to its allowance
ShrinkField(st, field, doc, body_budget) ==
    Truncated(st, field,
              TruncateForField(field, doc[field],
                               BaselineAllowance(st, field, body_budget)))

\* lines 59-137: the four nested baseline steps of process_markdown
RECURSIVE ShrinkBaseline(_, _, _, _)
ShrinkBaseline(st, i, doc, body_budget) ==
    IF i > Len(BaselineShrinkOrder) \/ BaselineTotal(st.sections) <= body_budget
    THEN st
    ELSE ShrinkBaseline(ShrinkField(st, BaselineShrinkOrder[i], doc, body_budget),
                        i + 1, doc, body_budget)

\* lines 154-165: the loop over OPTIONAL_FIELDS of process_markdown
RECURSIVE TruncateOptional(_, _, _, _)
TruncateOptional(st, i, doc, alloc) ==
    IF i > Len(OPTIONAL_FIELDS) THEN st
    ELSE TruncateOptional(
             Truncated(st, OPTIONAL_FIELDS[i],
                       TruncateForField(OPTIONAL_FIELDS[i], doc[OPTIONAL_FIELDS[i]],
                                        alloc[OPTIONAL_FIELDS[i]])),
             i + 1, doc, alloc)

NoSections == [field \in SeqRange(CORE_FIELDS) |-> Value(0, 0)]

\* What a call of process_markdown ends in.  kind is "returned" or
\* "budget_error"; has_processed tells whether a ProcessedRepoMarkdown comes
\* with it (the return value, or the error's `processed`).
Outcome(kind, has_processed, st, max_repo_bytes, where) ==
    [kind |-> kind,
     has_processed |-> has_processed,
     per_category_bytes |-> [field \in SeqRange(CORE_FIELDS) |-> st.sections[field].raw],
     output_total_utf8_bytes |-> IF has_processed THEN RenderedBytes(st.sections) ELSE 0,
     max_repo_data_size_for_prompt_bytes |-> max_repo_bytes,
     truncation_notes |-> st.notes,
     where |-> where]

FinalCheckExceeds_Never(output_bytes, max_repo_bytes) == FALSE

\* processor.py line 174
FinalCheckExceeds(output_bytes, max_repo_bytes) == output_bytes > max_repo_bytes

\* lines 167-185: the final check on the truncated sections
ProcessFinish(st, max_repo_bytes) ==
    IF FinalCheckExceeds(RenderedBytes(st.sections), max_repo_bytes)
    THEN Outcome("budget_error", TRUE, st, max_repo_bytes, "line 176")
    ELSE Outcome("returned", TRUE, st, max_repo_bytes, "line 185")

\* lines 139-165: the baseline check, the allocation, the optional sections
ProcessOptional(st, doc, cfg, max_repo_bytes) ==
    IF BaselineTotal(st.sections) > BodyBudget(max_repo_bytes)
    THEN Outcome("budget_error", FALSE,
                 [sections |-> NoSections, notes |-> st.notes],
                 max_repo_bytes, "line 142")
    ELSE ProcessFinish(
             TruncateOptional(
                 st, 1, doc,
                 AllocateOptionalBytes(
                     Max2(0, BodyBudget(max_repo_bytes) - BaselineTotal(st.sections)),
                     [field \in SeqRange(OPTIONAL_FIELDS) |-> st.sections[field].raw],
                     cfg.weights)),
             max_repo_bytes)

\* lines 41-59: the fast path, else the baseline steps
ProcessFrom(full, doc, cfg, max_repo_bytes) ==
    IF RenderedBytes(full.sections) <= max_repo_bytes
    THEN Outcome("returned", TRUE, full, max_repo_bytes, "line 50")
    ELSE ProcessOptional(ShrinkBaseline(full, 1, doc, BodyBudget(max_repo_bytes)),
                         doc, cfg, max_repo_bytes)

ProcessMarkdown(doc, cfg) ==
    ProcessFrom([sections |-> InitialSections(doc), notes |-> <<>>], doc, cfg,
                MaxRepoDataBytes(cfg))

\* RepoProcessorConfig.validate
ConfigValid(cfg) ==
    /\ cfg.model_context_window_tokens > 0
    /\ 0 < cfg.max_repo_data_ratio_in_prompt.num
    /\ cfg.max_repo_data_ratio_in_prompt.num < cfg.max_repo_data_ratio_in_prompt.den
    /\ cfg.bytes_per_token_estimate > 0
    /\ \A name \in DOMAIN cfg.weights : cfg.weights[name] >= 0
    /\ \E name \in DOMAIN cfg.weights : cfg.weights[name] > 0

Ratio(num, den) == [num |-> num, den |-> den]

\* RepoProcessorConfig defaults: 0.40 / 0.20 / 0.20 / 0.20, in percent
DefaultWeights ==
    [documentation |-> 40, build_and_package_data |-> 20, tests |-> 20, code |-> 20]
CodeOnlyWeights ==
    [documentation |-> 0, build_and_package_data |-> 0, tests |-> 0, code |-> 100]
NoWeights ==
    [documentation |-> 0, build_and_package_data |-> 0, tests |-> 0, code |-> 0]

\* the digests the processor is run on
ProcDocs ==
    [repository_metadata : {TextContent(MetaChars, 1)},
     language_stats : {TextContent(LangChars, 1), NotFoundContent},
     directory_tree : {TreeContent([i \in 1..MaxTreeLines |-> TreeLineBytes]),
                       NotFoundContent},
     readme : {TextContent(ReadmeChars, 1), TextContent(ReadmeChars \div 3, 3)},
     documentation : {NotFoundContent, BlocksContent(<<DocBodyBytes>>),
                      BlocksContent(<<DocBodyBytes, MaxBodyBytes>>)},
     build_and_package_data : {NotFoundContent, BlocksContent(<<BuildBodyBytes>>)},
     tests : {NotFoundContent},
     code : {NotFoundContent, BlocksContent(<<MaxBodyBytes>>)}]

\* the configurations it is run under; the last two fail validate()
ProcConfigs ==
    [model_context_window_tokens : {k * CtxStep : k \in 1..(MaxCtxTokens \div CtxStep)},
     max_repo_data_ratio_in_prompt : {Ratio(1, 2), Ratio(13, 20)},
     bytes_per_token_estimate : {BytesPerToken},
     weights : {DefaultWeights, CodeOnlyWeights}]
    \cup
    [model_context_window_tokens : {MaxCtxTokens},
     max_repo_data_ratio_in_prompt : {Ratio(1, 1)},
     bytes_per_token_estimate : {BytesPerToken},
     weights : {DefaultWeights}]
    \cup
    [model_context_window_tokens : {MaxCtxTokens},
     max_repo_data_ratio_in_prompt : {Ratio(1, 2)},
     bytes_per_token_estimate : {BytesPerToken},
     weights : {NoWeights}]

NoDoc == <<>>
NoCfg == <<>>
NoOutcome == [kind |-> "none"]

ProcIdle ==
    /\ proc_pc = "idle"
    /\ proc_doc = NoDoc
    /\ proc_cfg = NoCfg
    /\ proc_result = NoOutcome

ProcInit ==
    /\ proc_pc = "called"
    /\ proc_doc \in ProcDocs
    /\ proc_cfg \in ProcConfigs
    /\ proc_result = NoOutcome

\* process_markdown line 31: cfg.validate() raises RepoProcessorConfigError
ProcValidateFails ==
    /\ proc_pc = "called"
    /\ ~ConfigValid(proc_cfg)
    /\ proc_pc' = "done"
    /\ proc_result' = [kind |-> "config_error"]
    /\ UNCHANGED <<proc_doc, proc_cfg>>

\* process_markdown lines 33-185
ProcProcess ==
    /\ proc_pc = "called"
    /\ ConfigValid(proc_cfg)
    /\ proc_pc' = "done"
    /\ proc_result' = ProcessMarkdown(proc_doc, proc_cfg)
    /\ UNCHANGED <<proc_doc, proc_cfg>>

(***************************************************************************)
(* LlmGate.summarize seen from its caller (llm_gate/client.py), and        *)
(* summarize_service (main.py).                                            *)
(***************************************************************************)
\* exc.context by what _parse_context_window_overflow reads from it: absent,
\* the call label "chat_completions", or the provider's message; a message
\* either matches one of the two patterns, giving (max_tokens,
\* request_tokens), or does not
NoContext == [text |-> "none", matches |-> FALSE, max_tokens |-> 0, request_tokens |-> 0]
LabelContext == [text |-> "label", matches |-> FALSE, max_tokens |-> 0, request_tokens |-> 0]
MessageContext(resp) ==
    [text |-> "message", matches |-> resp.overflow,
     max_tokens |-> resp.max_tokens, request_tokens |-> resp.request_tokens]

Exc(cls, upstream_status, context) ==
    [cls |-> cls, upstream_status |-> upstream_status, context |-> context]
NoError == Exc("none", NoStatus, NoContext)

\* what the provider does with a chat-completions POST, lasting through the
\* gate's own retries
ProviderResponse(kind, status, overflow, max_tokens, request_tokens) ==
    [kind |-> kind, status |-> status, overflow |-> overflow,
     max_tokens |-> max_tokens, request_tokens |-> request_tokens]

ProviderResponses ==
    {ProviderResponse("ok", 200, FALSE, 0, 0),
     ProviderResponse("bad_output", 200, FALSE, 0, 0),
     ProviderResponse("timeout", NoStatus, FALSE, 0, 0),
     ProviderResponse("status", 400, FALSE, 0, 0),
     ProviderResponse("status", 429, FALSE, 0, 0),
     ProviderResponse("status", 503, FALSE, 0, 0)}
    \cup {ProviderResponse("status", 400, TRUE, ProviderMaxTokens, m) :
            m \in {0, ProviderMaxTokens - ProviderMaxTokens \div 10,
                   2 * ProviderMaxTokens, 10 * ProviderMaxTokens}}

SubstituteRaises(resp) ==
    CASE resp.kind = "ok" -> NoError
      [] resp.kind = "bad_output" -> Exc("LlmOutputValidationError", NoStatus, LabelContext)
      [] resp.kind = "timeout" -> Exc("LlmTimeoutError", 504, LabelContext)
      [] resp.kind = "network" -> Exc("LlmUpstreamError", NoStatus, LabelContext)
      [] resp.kind = "status" /\ resp.status = 429 ->
            Exc("LlmRateLimitError", 429, LabelContext)
      [] resp.kind = "status" /\ resp.status \in {502, 503, 504} ->
            Exc("LlmUpstreamError", resp.status, LabelContext)
      [] resp.kind = "status" /\ resp.status \in NON_RETRYABLE_STATUSES ->
            Exc("LlmUpstreamError", resp.status, MessageContext(resp))

\* LlmGate.summarize: NoError when it returns a SummaryResult, else the
\* exception it raises (_call_with_retry, then _extract_output_json and
\* _normalize_and_validate)
LlmRaises(resp) ==
    CASE resp.kind = "ok" -> NoError
      [] resp.kind = "bad_output" -> Exc("LlmOutputValidationError", NoStatus, LabelContext)
      [] resp.kind = "timeout" -> Exc("LlmTimeoutError", 504, LabelContext)
      [] resp.kind = "network" -> Exc("LlmUpstreamError", NoStatus, LabelContext)
      [] resp.kind = "status" /\ resp.status = 429 ->
            Exc("LlmRateLimitError", 429, LabelContext)
      [] resp.kind = "status" /\ resp.status \in {502, 503, 504} ->
            Exc("LlmUpstreamError", resp.status, LabelContext)
      [] resp.kind = "status" /\ resp.status \in NON_RETRYABLE_STATUSES ->
            Exc("LlmUpstreamError", resp.status, NoContext)

\* llm_gate.summarize as summarize_service calls it.  main.LlmGate is looked
\* up when the request starts: it is the shipped LlmGate, or a substitute
\* put in its place (as the integration test does) whose LlmUpstreamError
\* carries the provider's message as context.
GateRaises(gate, resp) ==
    IF gate = "LlmGate" THEN LlmRaises(resp) ELSE SubstituteRaises(resp)

NoOverflow == [found |-> FALSE, max_tokens |-> 0, request_tokens |-> 0]

\* _parse_context_window_overflow
ParseContextWindowOverflow(exc) ==
    IF exc.upstream_status # 400 THEN NoOverflow
    ELSE IF exc.context.text = "none" THEN NoOverflow
    ELSE IF exc.context.matches
    THEN [found |-> TRUE, max_tokens |-> exc.context.max_tokens,
          request_tokens |-> exc.context.request_tokens]
    ELSE NoOverflow

\* arithmetic on ratios kept as fractions with positive denominators
RMul(a, b) == Ratio(a.num * b.num, a.den * b.den)
RLess(a, b) == a.num * b.den < b.num * a.den
RLeq(a, b) == a.num * b.den <= b.num * a.den
RMin(a, b) == IF RLess(b, a) THEN b ELSE a
RMax(a, b) == IF RLess(a, b) THEN b ELSE a

\* main.py lines 312-317: target_ratio from current_ratio and (N, M), M > 0
RetryRatio(current_ratio, max_tokens, request_tokens) ==
    LET shrink_factor == Ratio(max_tokens * 9, request_tokens * 10)
        scaled == RMul(current_ratio, shrink_factor)
        capped == RMin(scaled, RMul(current_ratio, Ratio(9, 10)))
    IN  RMax(Ratio(1, 20), capped)

\* the except clauses of summarize_service, lines 359-412
StatusOf(exc) ==
    CASE exc.cls = "InvalidGithubUrlError" -> 400
      [] exc.cls = "RepositoryInaccessibleError" -> 404
      [] exc.cls = "GithubRateLimitError" -> 429
      [] exc.cls = "GithubTimeoutError" -> 504
      [] exc.cls = "GithubResponseShapeError" -> 502
      [] exc.cls = "RepoProcessorParseError" -> 422
      [] exc.cls = "LlmDigestParseError" -> 422
      [] exc.cls = "LlmOutputValidationError" -> 502
      [] exc.cls = "LlmRateLimitError" -> 429
      [] exc.cls = "LlmTimeoutError" -> 504
      [] exc.cls = "LlmUpstreamError" ->
            IF exc.upstream_status = 429 THEN 429
            ELSE IF exc.upstream_status = 504 THEN 504 ELSE 503
      [] OTHER -> 500

GithubErrors ==
    {Exc("RepositoryInaccessibleError", 404, NoContext),
     Exc("GithubRateLimitError", 429, NoContext),
     Exc("GithubTimeoutError", NoStatus, NoContext)}

\* the gate methods _fetch_all_entities calls, in the order it calls them
StageCalls_TestsBeforeBuild ==
    <<"get_repo_metadata", "get_tree", "get_languages", "get_readme",
      "get_documentation", "get_tests", "get_build_and_package_data", "get_code">>

StageCalls ==
    <<"get_repo_metadata", "get_tree", "get_languages", "get_readme",
      "get_documentation", "get_build_and_package_data", "get_tests", "get_code">>

\* what a selector that ran and found files contributes to the digest
FetchedContent(field) ==
    CASE field = "documentation" -> BlocksContent(<<DocBodyBytes, MaxBodyBytes>>)
      [] field = "build_and_package_data" -> BlocksContent(<<BuildBodyBytes>>)
      [] field = "tests" -> BlocksContent(<<BuildBodyBytes>>)
      [] field = "code" -> BlocksContent(<<MaxBodyBytes>>)

\* the eight processor sections of render_full_extraction_markdown's output
Digest(results) ==
    [field \in SeqRange(CORE_FIELDS) |->
        CASE field = "repository_metadata" -> TextContent(MetaChars, 1)
          [] field = "language_stats" -> TextContent(LangChars, 1)
          [] field = "directory_tree" ->
                TreeContent([i \in 1..MaxTreeLines |-> TreeLineBytes])
          [] field = "readme" -> TextContent(ReadmeChars, 1)
          [] OTHER -> IF results[field] = "ok" THEN FetchedContent(field)
                      ELSE NotFoundContent]

\* the markdown handed to llm_gate.summarize: the full markdown, or the
\* rendering of the ProcessedRepoMarkdown that came with outcome number
\* `of_outcome`
FullMarkdown == [source |-> "full_markdown", of_outcome |-> 0, processed_bytes |-> 0]
ProcessedMarkdown(k, outcome) ==
    [source |-> "processed", of_outcome |-> k,
     processed_bytes |-> outcome.output_total_utf8_bytes]

\* the least the two trailing sections of render_extraction_markdown take:
\* "# Extraction Stats" with every count 0, "# Warnings" with "None"
FullTrailerMinBytes == 343

\* a lower bound of len(full_markdown): the eight processor sections laid
\* out as render_processed_markdown lays them out, a blank line in place of
\* the final line break, the two trailing sections
FullMarkdownMinBytes(results) ==
    RenderedBytes(InitialSections(Digest(results))) + 1 + FullTrailerMinBytes

\* UTF-8 bytes of a markdown handed to llm_gate.summarize (for the full
\* markdown, the lower bound)
SentBytes(markdown, results) ==
    IF markdown.source = "processed" THEN markdown.processed_bytes
    ELSE FullMarkdownMinBytes(results)

LlmInputFor_AlwaysFull(k, outcome) == FullMarkdown

\* lines 228-271 and 330-339: llm_input_markdown after process_markdown ended
\* in `outcome`
LlmInputFor(k, outcome) ==
    IF outcome.has_processed THEN ProcessedMarkdown(k, outcome) ELSE FullMarkdown

AfterRetryCallRaises_HandledAgain == "llm_raised"

\* line 350 sits outside the try of line 303: what it raises leaves the
\* function
AfterRetryCallRaises == "failed"

NoRatio == Ratio(0, 1)
NoResults == [field \in SeqRange(OPTIONAL_FIELDS) |-> "pending"]

\* the runtime configurations a request runs under (all pass validate())
SvcConfigs ==
    [model_context_window_tokens : {MaxCtxTokens},
     max_repo_data_ratio_in_prompt :
        {Ratio(3, 100), Ratio(1, 20), Ratio(1, 2), Ratio(13, 20)},
     bytes_per_token_estimate : {BytesPerToken},
     weights : {DefaultWeights}]

SvcIdle ==
    /\ svc_pc = "idle"
    /\ svc_gate = "none"
    /\ svc_cfg = NoCfg
    /\ svc_stage = 0
    /\ svc_deadline = FALSE
    /\ svc_results = NoResults
    /\ svc_calls = <<>>
    /\ svc_outcomes = <<>>
    /\ svc_input = FullMarkdown
    /\ svc_sent = <<>>
    /\ svc_llm_out = <<>>
    /\ svc_ratio = NoRatio
    /\ svc_error = NoError
    /\ svc_status = 200
    /\ svc_warnings = <<>>
    /\ svc_late = {}

\* summarize_service lines 183-193
SvcInit ==
    /\ svc_pc = "start"
    /\ svc_gate \in {"LlmGate", "substitute"}
    /\ svc_cfg \in SvcConfigs
    /\ svc_stage = 0
    /\ svc_deadline = FALSE
    /\ svc_results = NoResults
    /\ svc_calls = <<>>
    /\ svc_outcomes = <<>>
    /\ svc_input = FullMarkdown
    /\ svc_sent = <<>>
    /\ svc_llm_out = <<>>
    /\ svc_ratio = NoRatio
    /\ svc_error = NoError
    /\ svc_status = 200
    /\ svc_warnings = <<>>
    /\ svc_late = {}

\* an exception leaves summarize_service through the except clauses
SvcFail(exc) ==
    /\ svc_pc' = "failed"
    /\ svc_error' = exc
    /\ svc_status' = StatusOf(exc)

\* line 195
SvcParseRepoUrl ==
    /\ svc_pc = "start"
    /\ UNCHANGED <<svc_warnings, svc_late>>
    /\ svc_calls' = Append(svc_calls, "parse_repo_url")
    /\ \E ok \in BOOLEAN :
          IF ok THEN /\ svc_pc' = "parsed"
                     /\ UNCHANGED <<svc_error, svc_status>>
          ELSE SvcFail(Exc("InvalidGithubUrlError", NoStatus, NoContext))
    /\ UNCHANGED <<svc_gate, svc_cfg, svc_stage, svc_deadline, svc_results,
                   svc_outcomes, svc_input, svc_sent, svc_llm_out, svc_ratio>>

\* line 198
SvcVerifyRepoAccess ==
    /\ svc_pc = "parsed"
    /\ UNCHANGED <<svc_warnings, svc_late>>
    /\ svc_calls' = Append(svc_calls, "verify_repo_access")
    /\ \/ /\ svc_pc' = "fetch"
          /\ svc_stage' = 1
          /\ UNCHANGED <<svc_error, svc_status>>
       \/ /\ \E exc \in GithubErrors : SvcFail(exc)
          /\ UNCHANGED svc_stage
    /\ UNCHANGED <<svc_gate, svc_cfg, svc_deadline, svc_results,
                   svc_outcomes, svc_input, svc_sent, svc_llm_out, svc_ratio>>

\* the stage names _fetch_all_entities passes to _stage_start
StageNames ==
    <<"metadata", "tree", "languages", "readme",
      "documentation", "build_package", "tests", "code">>

\* an entry of `warnings`: the stage it names and the reason it gives
Warning(stage, reason) == [stage |-> stage, reason |-> reason]

\* whether elapsed_ms >= max_total_fetch_ms once a call has returned, given
\* whether it was so before the call: the clock only moves forward
ClockAfter(exhausted) == {b \in BOOLEAN : exhausted => b}

\* _fetch_all_entities lines 463-482: metadata, tree, languages, readme.
\* The gate method is called without a look at the clock and outside any
\* try: what it raises leaves _fetch_all_entities.
SvcFetchBaseline ==
    /\ svc_pc = "fetch"
    /\ svc_stage \in 1..Len(BASELINE_FIELDS)
    /\ svc_calls' = Append(svc_calls, StageCalls[svc_stage])
    /\ svc_late' = IF svc_deadline THEN svc_late \cup {StageNames[svc_stage]}
                   ELSE svc_late
    /\ svc_deadline' \in ClockAfter(svc_deadline)
    /\ \/ /\ svc_stage' = svc_stage + 1
          /\ UNCHANGED <<svc_pc, svc_error, svc_status>>
       \/ /\ \E exc \in GithubErrors : SvcFail(exc)
          /\ UNCHANGED svc_stage
    /\ UNCHANGED <<svc_gate, svc_cfg, svc_results, svc_outcomes, svc_input,
                   svc_sent, svc_llm_out, svc_ratio, svc_warnings>>

\* _fetch_all_entities lines 484-539: documentation, build_package, tests,
\* code.  _time_budget_exhausted reads the clock and, with the budget used
\* up, appends its warning and the stage is skipped.  A stage that is not
\* skipped calls its selector; a selector that raises leaves an empty result
\* and a warning.
SvcFetchOptional ==
    /\ svc_pc = "fetch"
    /\ svc_stage \in (Len(BASELINE_FIELDS) + 1)..Len(StageCalls)
    /\ LET field == OPTIONAL_FIELDS[svc_stage - Len(BASELINE_FIELDS)]
           stage == StageNames[svc_stage] IN
          IF svc_deadline
          THEN /\ svc_results' = [svc_results EXCEPT ![field] = "skipped"]
               /\ svc_warnings' = Append(svc_warnings,
                     Warning(stage, "max_total_fetch_duration_reached"))
               /\ UNCHANGED <<svc_calls, svc_deadline>>
          ELSE /\ svc_calls' = Append(svc_calls, StageCalls[svc_stage])
               /\ \E result \in {"ok", "failed"} :
                     /\ svc_results' = [svc_results EXCEPT ![field] = result]
                     /\ svc_warnings' = IF result = "failed"
                           THEN Append(svc_warnings, Warning(stage, "selector failed"))
                           ELSE svc_warnings
               /\ svc_deadline' \in ClockAfter(svc_deadline)
    /\ svc_stage' = svc_stage + 1
    /\ svc_pc' = IF svc_stage = Len(StageCalls) THEN "fetched" ELSE "fetch"
    /\ UNCHANGED <<svc_gate, svc_cfg, svc_outcomes, svc_input, svc_sent,
                   svc_llm_out, svc_ratio, svc_error, svc_status, svc_late>>

\* lines 206-228: render_full_extraction_markdown; llm_input_markdown starts
\* as the full markdown
SvcRenderFull ==
    /\ svc_pc = "fetched"
    /\ UNCHANGED <<svc_warnings, svc_late>>
    /\ svc_calls' = Append(svc_calls, "render_full_extraction_markdown")
    /\ svc_input' = FullMarkdown
    /\ svc_pc' = "rendered"
    /\ UNCHANGED <<svc_gate, svc_cfg, svc_stage, svc_deadline, svc_results,
                   svc_outcomes, svc_sent, svc_llm_out, svc_ratio, svc_error,
                   svc_status>>

\* line 231: process_markdown(full_markdown) returns or raises budget_error
SvcProcess ==
    /\ svc_pc = "rendered"
    /\ UNCHANGED <<svc_warnings, svc_late>>
    /\ svc_calls' = Append(svc_calls, "process_markdown")
    /\ svc_outcomes' = Append(svc_outcomes, ProcessMarkdown(Digest(svc_results), svc_cfg))
    /\ svc_pc' = "processed"
    /\ UNCHANGED <<svc_gate, svc_cfg, svc_stage, svc_deadline, svc_results,
                   svc_input, svc_sent, svc_llm_out, svc_ratio, svc_error,
                   svc_status>>

\* lines 232-271: render the processed result, the partial one of a
\* budget_error, or keep the full markdown
SvcUseProcessed ==
    /\ svc_pc = "processed"
    /\ UNCHANGED <<svc_warnings, svc_late>>
    /\ \E outcome \in {svc_outcomes[Len(svc_outcomes)]} :
       /\ svc_input' = LlmInputFor(Len(svc_outcomes), outcome)
       /\ svc_calls' = IF outcome.has_processed
                       THEN Append(svc_calls, "render_processed_markdown")
                       ELSE svc_calls
    /\ svc_pc' = "llm_ready"
    /\ UNCHANGED <<svc_gate, svc_cfg, svc_stage, svc_deadline, svc_results,
                   svc_outcomes, svc_sent, svc_llm_out, svc_ratio, svc_error,
                   svc_status>>

\* line 304: the first llm_gate.summarize
SvcLlmCall ==
    /\ svc_pc = "llm_ready"
    /\ UNCHANGED <<svc_warnings, svc_late>>
    /\ svc_calls' = Append(svc_calls, "llm_summarize")
    /\ svc_sent' = Append(svc_sent, svc_input)
    /\ \E resp \in ProviderResponses :
          LET exc == GateRaises(svc_gate, resp) IN
          /\ svc_llm_out' = Append(svc_llm_out, [resp |-> resp, exc |-> exc])
          /\ svc_pc' = IF exc = NoError THEN "done" ELSE "llm_raised"
    /\ UNCHANGED <<svc_gate, svc_cfg, svc_stage, svc_deadline, svc_results,
                   svc_outcomes, svc_input, svc_ratio, svc_error, svc_status>>

\* lines 305-319: only an LlmUpstreamError is caught; it is re-raised unless
\* it parses to (N, M) with M > 0, else the retry ratio is computed
SvcHandleLlmError ==
    /\ svc_pc = "llm_raised"
    /\ UNCHANGED <<svc_warnings, svc_late>>
    /\ LET exc == svc_llm_out[Len(svc_llm_out)].exc
           overflow == ParseContextWindowOverflow(exc)
       IN  IF exc.cls = "LlmUpstreamError" /\ overflow.found
                /\ overflow.request_tokens > 0
           THEN /\ svc_ratio' = RetryRatio(svc_cfg.max_repo_data_ratio_in_prompt,
                                           overflow.max_tokens,
                                           overflow.request_tokens)
                /\ svc_pc' = "retry"
                /\ UNCHANGED <<svc_error, svc_status>>
           ELSE /\ SvcFail(exc)
                /\ UNCHANGED svc_ratio
    /\ UNCHANGED <<svc_gate, svc_cfg, svc_stage, svc_deadline, svc_results,
                   svc_calls, svc_outcomes, svc_input, svc_sent, svc_llm_out>>

\* lines 330-339: process_markdown(full_markdown, config=retry_cfg) and the
\* choice of the retry's llm_input_markdown
SvcRetryProcess ==
    /\ svc_pc = "retry"
    /\ UNCHANGED <<svc_warnings, svc_late>>
    /\ \E outcome \in
            {ProcessMarkdown(
                 Digest(svc_results),
                 [svc_cfg EXCEPT !.max_repo_data_ratio_in_prompt = svc_ratio])} :
           /\ svc_outcomes' = Append(svc_outcomes, outcome)
           /\ svc_input' = LlmInputFor(Len(svc_outcomes) + 1, outcome)
           /\ svc_calls' = IF outcome.has_processed
                           THEN svc_calls \o <<"process_markdown",
                                               "render_processed_markdown">>
                           ELSE Append(svc_calls, "process_markdown")
    /\ svc_pc' = "retry_ready"
    /\ UNCHANGED <<svc_gate, svc_cfg, svc_stage, svc_deadline, svc_results,
                   svc_sent, svc_llm_out, svc_ratio, svc_error, svc_status>>

\* line 350: the second llm_gate.summarize
SvcRetryLlmCall ==
    /\ svc_pc = "retry_ready"
    /\ UNCHANGED <<svc_warnings, svc_late>>
    /\ svc_calls' = Append(svc_calls, "llm_summarize")
    /\ svc_sent' = Append(svc_sent, svc_input)
    /\ \E resp \in ProviderResponses :
          LET exc == GateRaises(svc_gate, resp) IN
          /\ svc_llm_out' = Append(svc_llm_out, [resp |-> resp, exc |-> exc])
          /\ IF exc = NoError
             THEN /\ svc_pc' = "done"
                  /\ UNCHANGED <<svc_error, svc_status>>
             ELSE IF AfterRetryCallRaises = "failed"
             THEN SvcFail(exc)
             ELSE /\ svc_pc' = AfterRetryCallRaises
                  /\ UNCHANGED <<svc_error, svc_status>>
    /\ UNCHANGED <<svc_gate, svc_cfg, svc_stage, svc_deadline, svc_results,
                   svc_outcomes, svc_input, svc_ratio>>

(***************************************************************************)
(* Digest markdown: render_processed_markdown and parse_extraction_markdown *)
(* (repo_processor/parser.py), parse_repo_digest_markdown                   *)
(* (llm_gate/markdown_parser.py).                                           *)
(*                                                                          *)
(* A text is the sequence of its lines.  A line is kept by its stripped     *)
(* form (tok) and by the part of the digest it is (role): "heading" for a   *)
(* section heading the renderer wrote, "content" for a line of a file's     *)
(* content between the fence lines of its file block, "other" for the rest. *)
(* The roles are the record of how the digest was built; no parser reads    *)
(* them.                                                                    *)
(***************************************************************************)
Line(tok, role) == [tok |-> tok, role |-> role]

Toks(lines) == [i \in DOMAIN lines |-> lines[i].tok]

\* HEADER_TO_FIELD of llm_gate/markdown_parser.py
HEADER_TO_FIELD ==
    [h \in {"# Repository Metadata", "# Language Stats", "# Directory Tree",
            "# README", "# Documentation", "# Build and Package Data",
            "# Tests", "# Code"} |->
        CASE h = "# Repository Metadata" -> "repository_metadata"
          [] h = "# Language Stats" -> "language_stats"
          [] h = "# Directory Tree" -> "tree_summary"
          [] h = "# README" -> "readme_text"
          [] h = "# Documentation" -> "documentation_text"
          [] h = "# Build and Package Data" -> "build_package_text"
          [] h = "# Tests" -> "test_snippets"
          [] h = "# Code" -> "code_snippets"]

\* INPUT_HEADER_TO_FIELD of repo_processor/parser.py
INPUT_HEADER_TO_FIELD ==
    [h \in {"# Repository Metadata", "# Language Stats", "# Directory Tree",
            "# README", "# Documentation", "# Build and Package Data",
            "# Tests", "# Code", "# Extraction Stats", "# Warnings"} |->
        CASE h = "# Repository Metadata" -> "repository_metadata"
          [] h = "# Language Stats" -> "language_stats"
          [] h = "# Directory Tree" -> "directory_tree"
          [] h = "# README" -> "readme"
          [] h = "# Documentation" -> "documentation"
          [] h = "# Build and Package Data" -> "build_and_package_data"
          [] h = "# Tests" -> "tests"
          [] h = "# Code" -> "code"
          [] h = "# Extraction Stats" -> "extraction_stats"
          [] h = "# Warnings" -> "warnings"]

\* OUTPUT_SECTIONS of repo_processor/parser.py
OUTPUT_SECTIONS ==
    <<[header |-> "# Repository Metadata", field |-> "repository_metadata"],
      [header |-> "# Language Stats", field |-> "language_stats"],
      [header |-> "# Directory Tree", field |-> "directory_tree"],
      [header |-> "# README", field |-> "readme"],
      [header |-> "# Documentation", field |-> "documentation"],
      [header |-> "# Build and Package Data", field |-> "build_and_package_data"],
      [header |-> "# Tests", field |-> "tests"],
      [header |-> "# Code", field |-> "code"]>>

HeaderToField(parser) ==
    IF parser = "llm_gate" THEN HEADER_TO_FIELD ELSE INPUT_HEADER_TO_FIELD

FieldsOf(parser) == {HeaderToField(parser)[h] : h \in DOMAIN HeaderToField(parser)}

\* stripped.startswith of three backticks; the three backticks are written
\* [fence] in the lines of this model
StartsWithFence(tok) == tok \in {"[fence]", "[fence]text"}

\* the empty string, and a section the parser did not find
EmptyText == <<>>
None == <<Line("None", "none")>>

\* str.strip() of a text: the blank lines at its two ends go
RECURSIVE LStrip(_)
LStrip(lines) ==
    IF lines # <<>> /\ Head(lines).tok = "" THEN LStrip(Tail(lines)) ELSE lines

RECURSIVE RStrip(_)
RStrip(lines) ==
    IF lines # <<>> /\ lines[Len(lines)].tok = ""
    THEN RStrip(SubSeq(lines, 1, Len(lines) - 1))
    ELSE lines

Strip(lines) == RStrip(LStrip(lines))

\* the lines of f"{header}\n{value.strip()}": a value that strips to the
\* empty string leaves an empty line after the heading
SectionPart(header, value) ==
    <<Line(header, "heading")>> \o
        (IF Strip(value) = EmptyText THEN <<Line("", "other")>> ELSE Strip(value))

\* render_processed_markdown: "\n\n".join(parts) + "\n", as lines
RECURSIVE RenderFrom(_, _)
RenderFrom(data, k) ==
    LET section == OUTPUT_SECTIONS[k]
        value == IF data[section.field] = None
                 THEN <<Line("Not found", "other")>>
                 ELSE data[section.field]
        part == SectionPart(section.header, value)
    IN  IF k = Len(OUTPUT_SECTIONS) THEN part
        ELSE part \o <<Line("", "other")>> \o RenderFrom(data, k + 1)

RenderProcessedMarkdown(data) == RenderFrom(data, 1)

\* one pass of the loop of _known_boundaries / _known_section_boundaries
\* over the line `line_no`
FenceAfter(in_fence, tok) == IF StartsWithFence(tok) THEN ~in_fence ELSE in_fence

BoundariesAfter(boundaries, in_fence_after, tok, line_no, parser) ==
    IF ~in_fence_after /\ tok \in DOMAIN HeaderToField(parser)
    THEN Append(boundaries, line_no)
    ELSE boundaries

\* markdown_text[start:end].strip() for the boundary number `index`
BodyOf(lines, boundaries, index) ==
    Strip(SubSeq(lines, boundaries[index] + 1,
                 IF index < Len(boundaries) THEN boundaries[index + 1] - 1
                 ELSE Len(lines)))

DigestBody_Kept(body) == body

\* if body in {"Not requested", "Not found"}: body = ""
DigestBody(body) ==
    IF Toks(body) \in {<<"Not requested">>, <<"Not found">>}
    THEN EmptyText ELSE body

\* the loop over boundaries of parse_repo_digest_markdown
RECURSIVE DigestValues(_, _, _, _)
DigestValues(values, lines, boundaries, index) ==
    IF index > Len(boundaries) THEN values
    ELSE LET field == HEADER_TO_FIELD[lines[boundaries[index]].tok]
             body == BodyOf(lines, boundaries, index)
         IN  DigestValues(
                 [values EXCEPT ![field] = DigestBody(body)],
                 lines, boundaries, index + 1)

\* the loop over boundaries of _extract_top_level_sections: an empty body
\* becomes None
RECURSIVE ExtractedSections(_, _, _, _)
ExtractedSections(results, lines, boundaries, index) ==
    IF index > Len(boundaries) THEN results
    ELSE LET field == INPUT_HEADER_TO_FIELD[lines[boundaries[index]].tok]
             body == BodyOf(lines, boundaries, index)
         IN  ExtractedSections(
                 [results EXCEPT ![field] = IF body = EmptyText THEN None ELSE body],
                 lines, boundaries, index + 1)

\* _render_file_block: the heading of the block, its three "- ..." lines,
\* the opening fence, the content, the closing fence
FileBlock(content) ==
    <<Line("## File: path", "other"), Line("- Source: n/a", "other"),
      Line("- UTF8 Bytes: n", "other"), Line("- Estimated Tokens: n", "other"),
      Line("[fence]text", "other")>>
    \o [i \in DOMAIN content |-> Line(content[i], "content")]
    \o <<Line("[fence]", "other")>>

\* a section value that is not a file block
Plain(toks) == [i \in DOMAIN toks |-> Line(toks[i], "other")]

\* the file contents tried: up to MaxContentLines lines, each an ordinary
\* line, a line of three backticks or a line equal to a heading
ContentLines == {"text", "[fence]", "# Code"}

FileContents ==
    UNION {[1..n -> ContentLines] : n \in 1..MaxContentLines}

ReadmeValues ==
    {FileBlock(c) : c \in FileContents}
    \cup {Plain(<<>>), Plain(<<"Not found">>), Plain(<<"", "text", "">>),
          Plain(<<"text", "# Code", "text">>)}

CodeValues ==
    {FileBlock(<<"text">>), FileBlock(<<"[fence]", "# Tests">>), Plain(<<"text">>),
     Plain(<<>>)}

\* the ProcessedRepoMarkdown values tried, by their eight string sections
ProcessedSections ==
    {[field \in {OUTPUT_SECTIONS[k].field : k \in DOMAIN OUTPUT_SECTIONS} |->
         CASE field = "readme" -> readme
           [] field = "code" -> code
           [] field = "documentation" -> Plain(<<"Not found">>)
           [] field = "tests" -> FileBlock(<<"text">>)
           [] OTHER -> Plain(<<"text">>)] :
      readme \in ReadmeValues, code \in CodeValues}

NoSectionValues == <<>>

PrsIdle ==
    /\ prs_pc = "idle"
    /\ prs_parser = "none"
    /\ prs_x = NoSectionValues
    /\ prs_doc = <<>>
    /\ prs_idx = 0
    /\ prs_in_fence = FALSE
    /\ prs_boundaries = <<>>
    /\ prs_values = NoSectionValues
    /\ prs_rendered = <<>>

\* Entry of a parser with the rendering of a digest: lines =
\* markdown_text.splitlines(keepends=True), boundaries = [], in_fence = False
PrsInit ==
    /\ prs_pc = "scan"
    /\ prs_parser \in {"llm_gate", "repo_processor"}
    /\ prs_x \in ProcessedSections
    /\ prs_doc = RenderProcessedMarkdown(prs_x)
    /\ prs_idx = 0
    /\ prs_in_fence = FALSE
    /\ prs_boundaries = <<>>
    /\ prs_values = NoSectionValues
    /\ prs_rendered = <<>>

\* one pass of `for idx, line in enumerate(lines)`
PrsScanLine ==
    /\ prs_pc = "scan"
    /\ prs_idx < Len(prs_doc)
    /\ prs_idx' = prs_idx + 1
    /\ prs_in_fence' = FenceAfter(prs_in_fence, prs_doc[prs_idx + 1].tok)
    /\ prs_boundaries' = BoundariesAfter(prs_boundaries, prs_in_fence',
                                         prs_doc[prs_idx + 1].tok, prs_idx + 1,
                                         prs_parser)
    /\ UNCHANGED <<prs_pc, prs_parser, prs_x, prs_doc, prs_values, prs_rendered>>

\* the boundaries are known: parse_repo_digest_markdown raises when there is
\* none and fills its RepoDigest otherwise; _extract_top_level_sections
\* fills its results
PrsSlice ==
    /\ prs_pc = "scan"
    /\ prs_idx = Len(prs_doc)
    /\ IF prs_parser = "llm_gate"
       THEN IF prs_boundaries = <<>>
            THEN /\ prs_pc' = "raised"
                 /\ UNCHANGED prs_values
            ELSE /\ prs_pc' = "sliced"
                 /\ prs_values' = DigestValues(
                        [field \in FieldsOf("llm_gate") |-> EmptyText],
                        prs_doc, prs_boundaries, 1)
       ELSE /\ prs_pc' = "sliced"
            /\ prs_values' = ExtractedSections(
                   [field \in FieldsOf("repo_processor") |-> None],
                   prs_doc, prs_boundaries, 1)
    /\ UNCHANGED <<prs_parser, prs_x, prs_doc, prs_idx, prs_in_fence,
                   prs_boundaries, prs_rendered>>

\* render_processed_markdown of what parse_extraction_markdown returned
PrsRender ==
    /\ prs_pc = "sliced"
    /\ prs_parser = "repo_processor"
    /\ prs_rendered' = RenderProcessedMarkdown(prs_values)
    /\ prs_pc' = "rendered"
    /\ UNCHANGED <<prs_parser, prs_x, prs_doc, prs_idx, prs_in_fence,
                   prs_boundaries, prs_values>>

(***************************************************************************)
(* LlmGate._normalize_and_validate (llm_gate/client.py).                   *)
(*                                                                         *)
(* A JSON value is kept by its type; a string is the sequence of its       *)
(* characters, drawn from " ", "a", "A" and "b".                           *)
(***************************************************************************)
TechMaxChars == 80
TechMaxCount == 20

Str(chars) == [type |-> "str", chars |-> chars]
NonStr == [type |-> "int"]
List(items) == [type |-> "list", items |-> items]
Object(keys, summary, technologies, structure) ==
    [type |-> "dict", keys |-> keys, summary |-> summary,
     technologies |-> technologies, structure |-> structure]

\* expected_keys = {"summary", "technologies", "structure"}
ExpectedKeys == {"summary", "technologies", "structure"}

\* str.strip(), str.rstrip() and str.lower() on a sequence of characters
RECURSIVE LStripChars(_)
LStripChars(s) ==
    IF s # <<>> /\ Head(s) = " " THEN LStripChars(Tail(s)) ELSE s

RECURSIVE RStripChars(_)
RStripChars(s) ==
    IF s # <<>> /\ s[Len(s)] = " "
    THEN RStripChars(SubSeq(s, 1, Len(s) - 1))
    ELSE s

StripChars(s) == RStripChars(LStripChars(s))

Lower(s) == [i \in DOMAIN s |-> IF s[i] = "A" THEN "a" ELSE s[i]]

\* if len(text) > 80: text = text[:80].rstrip()
TruncateTech_NoRstrip(text) ==
    IF Len(text) > TechMaxChars THEN SubSeq(text, 1, TechMaxChars) ELSE text

TruncateTech(text) ==
    IF Len(text) > TechMaxChars
    THEN RStripChars(SubSeq(text, 1, TechMaxChars))
    ELSE text

\* key = text.lower(), taken after the truncation
TechKey_BeforeTruncation(stripped, text) == Lower(stripped)

TechKey(stripped, text) == Lower(text)

ValidationError(message) ==
    [raised |-> TRUE, code |-> "llm_output_validation_error", message |-> message]

Returned(value) == [raised |-> FALSE, value |-> value]

\* the loop `for item in technologies_raw`, from item number i on: it ends
\* with the list normalized_techs, or raises on a non-string item
RECURSIVE TechLoop(_, _, _, _)
TechLoop(items, i, seen, normalized_techs) ==
    IF i > Len(items) THEN [raises |-> FALSE, techs |-> normalized_techs]
    ELSE IF items[i].type # "str" THEN [raises |-> TRUE, techs |-> <<>>]
    ELSE IF StripChars(items[i].chars) = <<>>
      THEN TechLoop(items, i + 1, seen, normalized_techs)
    ELSE IF TechKey(StripChars(items[i].chars),
                    TruncateTech(StripChars(items[i].chars))) \in seen
      THEN TechLoop(items, i + 1, seen, normalized_techs)
    ELSE TechLoop(items, i + 1,
                  seen \cup {TechKey(StripChars(items[i].chars),
                                     TruncateTech(StripChars(items[i].chars)))},
                  Append(normalized_techs,
                         Str(TruncateTech(StripChars(items[i].chars)))))

\* normalized_techs[:20]
CapTechs(normalized_techs) ==
    IF Len(normalized_techs) > TechMaxCount
    THEN SubSeq(normalized_techs, 1, TechMaxCount)
    ELSE normalized_techs

\* lines 202-223, once summary, structure and the type of technologies
\* have passed
NormalizeTechnologies(summary, structure, loop) ==
    IF loop.raises
    THEN ValidationError("technologies must contain only strings.")
    ELSE Returned(Object(ExpectedKeys, Str(summary), List(CapTechs(loop.techs)),
                         Str(structure)))

NormalizeAndValidate(payload) ==
    IF payload.type # "dict"
      THEN ValidationError("Output payload must be a JSON object.")
    ELSE IF payload.keys # ExpectedKeys
      THEN ValidationError("Output must contain exactly summary/technologies/structure keys.")
    ELSE IF payload.summary.type # "str" \/ payload.structure.type # "str"
      THEN ValidationError("summary and structure must be strings.")
    ELSE IF StripChars(payload.summary.chars) = <<>>
            \/ StripChars(payload.structure.chars) = <<>>
      THEN ValidationError("summary and structure must be non-empty strings.")
    ELSE IF payload.technologies.type # "list"
      THEN ValidationError("technologies must be an array.")
    ELSE NormalizeTechnologies(StripChars(payload.summary.chars),
                          StripChars(payload.structure.chars),
                          TechLoop(payload.technologies.items, 1, {}, <<>>))

\* the strings tried as items of technologies
Repeat(c, n) == [i \in 1..n |-> c]

ShortStrings == UNION {[1..n -> {" ", "a", "A"}] : n \in 0..MaxShortChars}

LongStrings ==
    {Repeat("b", LongPrefixChars) \o tail :
        tail \in {<<" ", " ", "a">>, <<"a", "a", "b">>, <<"a", "A", "a">>, <<"a", " ", "a">>}}

TechItems == {Str(s) : s \in ShortStrings \cup LongStrings} \cup {NonStr}

\* LongListItems distinct technologies: "b", "bb", ...
LongList == [k \in 1..LongListItems |-> Str(Repeat("b", k))]

TechLists ==
    UNION {[1..n -> TechItems] : n \in 0..MaxTechItems}
    \cup {LongList \o tail :
            tail \in UNION {[1..n -> {Str(<<"a">>), Str(<<"A">>), Str(<<"b">>),
                                      Str(<<" ">>), NonStr}] : n \in 0..2}}

\* the payloads tried: objects with the three keys and every TechLists
\* value; objects whose summary, structure or technologies is of another
\* type or blank; objects with a key missing or a key too many; a payload
\* that is not an object
NormalizePayloads ==
    {Object(ExpectedKeys, Str(summary), List(items), Str(<<"a", " ", "b">>)) :
        summary \in {<<" ", "a", " ">>, <<"A">>}, items \in TechLists}
    \cup {Object(keys, summary, technologies, structure) :
            keys \in {ExpectedKeys, {"summary", "technologies"},
                      ExpectedKeys \cup {"notes"}},
            summary \in {Str(<<"a">>), Str(<<" ">>), Str(<<>>), NonStr},
            technologies \in {List(<<Str(<<"a">>), NonStr>>), List(<<>>), Str(<<"a">>), NonStr},
            structure \in {Str(<<"b", " ">>), Str(<<" ", " ">>), NonStr}}
    \cup {List(<<>>), Str(<<"a">>), NonStr}

NoPayload == [type |-> "none"]
NoNormalized == [raised |-> FALSE, value |-> NoPayload]

NrmIdle ==
    /\ nrm_pc = "idle"
    /\ nrm_payload = NoPayload
    /\ nrm_first = NoNormalized
    /\ nrm_second = NoNormalized

NrmInit ==
    /\ nrm_pc = "called"
    /\ nrm_payload \in NormalizePayloads
    /\ nrm_first = NoNormalized
    /\ nrm_second = NoNormalized

\* normalized = self._normalize_and_validate(parsed)
NrmNormalize ==
    /\ nrm_pc = "called"
    /\ nrm_first' = NormalizeAndValidate(nrm_payload)
    /\ nrm_pc' = "once"
    /\ UNCHANGED <<nrm_payload, nrm_second>>

\* _normalize_and_validate applied to the object it returned
NrmNormalizeAgain ==
    /\ nrm_pc = "once"
    /\ ~nrm_first.raised
    /\ nrm_second' = NormalizeAndValidate(nrm_first.value)
    /\ nrm_pc' = "twice"
    /\ UNCHANGED <<nrm_payload, nrm_first>>

(***************************************************************************)
(* GithubGate.parse_repo_url (github_gate/client.py).                      *)
(*                                                                         *)
(* The argument is held as the parts urllib.parse.urlparse splits it into, *)
(* with the path as a sequence of characters: "/" separates segments, " "  *)
(* is a blank, "o" and "r" are name characters.  pad says whether the      *)
(* text carries leading and trailing whitespace, query whether a           *)
(* "?..." or "#..." part follows the path.                                  *)
(***************************************************************************)
\* longest path the inputs carry, in characters
MaxPathChars == 6

\* the only host parse_repo_url accepts (netloc.lower() != "github.com")
GithubHost == "github.com"

UrlSchemes == {"https", "HTTPS", "http"}
UrlNetlocs == {"github.com", "GitHub.com", "github.com:443", "gitlab.com"}
PathChars  == {"/", " ", "o", "r"}

\* paths that can follow a netloc: empty, or starting with "/"
UrlPaths ==
    {<<>>} \cup
    {<<"/">> \o t :
        t \in UNION {[1..n -> PathChars] : n \in 0..(MaxPathChars - 1)}}

Url(pad, scheme, netloc, path, query) ==
    [pad |-> pad, scheme |-> scheme, netloc |-> netloc, path |-> path,
     query |-> query]

\* "" and "   ": nothing but (possibly) whitespace
EmptyUrlText == Url(FALSE, "", "", <<>>, FALSE)
BlankUrlText == Url(TRUE, "", "", <<>>, FALSE)

UrlInputs ==
    {EmptyUrlText, BlankUrlText} \cup
    {Url(pad, scheme, netloc, path, query) :
        pad \in BOOLEAN, scheme \in UrlSchemes, netloc \in UrlNetlocs,
        path \in UrlPaths, query \in BOOLEAN}

\* raw = (github_url or "").strip()
StripUrl(u) == [u EXCEPT !.pad = FALSE]

\* `not raw`
IsEmptyText(raw) ==
    ~raw.pad /\ raw.scheme = "" /\ raw.netloc = "" /\ raw.path = <<>>
    /\ ~raw.query

\* str.lower() on the scheme and host texts in use
LowerText(s) ==
    CASE s = "HTTPS" -> "https"
      [] s = "GitHub.com" -> "github.com"
      [] OTHER -> s

\* parsed = urlparse(raw): the scheme comes back lower-cased, the netloc as
\* written, and the query and fragment are split off the path
UrlParse(raw) ==
    [scheme |-> LowerText(raw.scheme), netloc |-> raw.netloc,
     path |-> raw.path]

\* parsed.path.split("/")
RECURSIVE SplitPath(_, _, _)
SplitPath(path, cur, acc) ==
    IF path = <<>> THEN Append(acc, cur)
    ELSE IF Head(path) = "/"
         THEN SplitPath(Tail(path), <<>>, Append(acc, cur))
         ELSE SplitPath(Tail(path), Append(cur, Head(path)), acc)

NonEmptyPart(part) == part # <<>>

\* path_parts = [part for part in parsed.path.split("/") if part]
PathParts(path) == SelectSeq(SplitPath(path, <<>>, <<>>), NonEmptyPart)

NoUrlResult == [raised |-> FALSE, code |-> "", message |-> "",
                owner |-> <<>>, repo |-> <<>>]

\* raise InvalidGithubUrlError(message, ...)
InvalidGithubUrlError(message) ==
    [raised |-> TRUE, code |-> "invalid_github_url", message |-> message,
     owner |-> <<>>, repo |-> <<>>]

\* return RepoRef(owner=owner, repo=repo)
RepoRef(owner, repo) ==
    [raised |-> FALSE, code |-> "", message |-> "",
     owner |-> owner, repo |-> repo]

\* the checks on the split path, and the return
RepoRefFromParts(path_parts) ==
    IF Len(path_parts) < 2
    THEN InvalidGithubUrlError("URL must include owner and repository.")
    ELSE IF Len(path_parts) > 2
    THEN InvalidGithubUrlError(
             "Only repository root URLs are supported in v1.")
    ELSE IF StripChars(path_parts[1]) = <<>>
            \/ StripChars(path_parts[2]) = <<>>
    THEN InvalidGithubUrlError(
             "URL must include non-empty owner and repository.")
    ELSE RepoRef(StripChars(path_parts[1]), StripChars(path_parts[2]))

\* the scheme and host check on the parsed URL
RepoRefFromParsed(parsed) ==
    IF parsed.scheme # "https" \/ LowerText(parsed.netloc) # GithubHost
    THEN InvalidGithubUrlError(
             "Only https://github.com/{owner}/{repo} URLs are supported.")
    ELSE RepoRefFromParts(PathParts(parsed.path))

parse_repo_url(github_url) ==
    IF IsEmptyText(StripUrl(github_url))
    THEN InvalidGithubUrlError("GitHub URL is required.")
    ELSE RepoRefFromParsed(UrlParse(StripUrl(github_url)))

UrlIdle ==
    /\ url_pc = "idle"
    /\ url_input = EmptyUrlText
    /\ url_result = NoUrlResult

UrlInit ==
    /\ url_pc = "start"
    /\ url_input \in UrlInputs
    /\ url_result = NoUrlResult

\* repo_ref = github_gate.parse_repo_url(github_url)
UrlParseRepoUrl ==
    /\ url_pc = "start"
    /\ url_result' = parse_repo_url(url_input)
    /\ url_pc' = "done"
    /\ UNCHANGED url_input

(***************************************************************************)
(* POST /summarize and the exception handlers of main.py.                  *)
(*                                                                         *)
(* An exception is a class name with the fields code, message and          *)
(* upstream_status its constructor sets.  The handler that answers it is   *)
(* the one registered for the first class of its method resolution order   *)
(* that has a handler.                                                     *)
(***************************************************************************)
EdgeExc(cls, code, message, upstream_status) ==
    [cls |-> cls, code |-> code, message |-> message,
     upstream_status |-> upstream_status]

NoEdgeExc == EdgeExc("none", "", "", NoStatus)

\* upstream statuses the gates put on an error
UpstreamStatuses == {NoStatus, 400, 403, 404, 429, 500, 503, 504}

\* the constructors of github_gate/errors.py, llm_gate/errors.py and
\* repo_processor/errors.py: the code each class fixes, and whether the
\* class takes an upstream_status, fixes it to 504, or has none
ErrorClasses ==
    {[cls |-> "InvalidGithubUrlError", code |-> "invalid_github_url", status |-> "none"],
     [cls |-> "RepositoryInaccessibleError", code |-> "repository_inaccessible", status |-> "any"],
     [cls |-> "GithubRateLimitError", code |-> "github_rate_limited", status |-> "any"],
     [cls |-> "GithubUpstreamError", code |-> "github_upstream_error", status |-> "any"],
     [cls |-> "GithubTimeoutError", code |-> "github_timeout", status |-> "504"],
     [cls |-> "GithubResponseShapeError", code |-> "github_response_shape_error", status |-> "none"],
     [cls |-> "LlmConfigError", code |-> "llm_config_error", status |-> "none"],
     [cls |-> "LlmDigestParseError", code |-> "llm_digest_parse_error", status |-> "none"],
     [cls |-> "LlmRateLimitError", code |-> "llm_rate_limit_error", status |-> "any"],
     [cls |-> "LlmTimeoutError", code |-> "llm_timeout_error", status |-> "504"],
     [cls |-> "LlmUpstreamError", code |-> "llm_upstream_error", status |-> "any"],
     [cls |-> "LlmOutputValidationError", code |-> "llm_output_validation_error", status |-> "none"],
     [cls |-> "RepoProcessorConfigError", code |-> "repo_processor_config_error", status |-> "none"],
     [cls |-> "RepoProcessorParseError", code |-> "repo_processor_parse_error", status |-> "none"],
     [cls |-> "RepoProcessorOutputError", code |-> "repo_processor_output_error", status |-> "none"]}

StatusesOf(c) ==
    CASE c.status = "any" -> UpstreamStatuses
      [] c.status = "504" -> {504}
      [] OTHER -> {NoStatus}

\* what the stages of summarize_service after parse_repo_url can raise: an
\* error of the three packages, or an exception of no package (KeyError
\* stands for those)
ServiceExceptions ==
    UNION {{EdgeExc(c.cls, c.code, "detail", s) : s \in StatusesOf(c)} :
              c \in {k \in ErrorClasses : k.cls # "InvalidGithubUrlError"}}
    \cup {EdgeExc("KeyError", "", "", NoStatus)}

\* type(exc).__mro__, up to Exception
ExceptionMro(cls) ==
    CASE cls \in {"InvalidGithubUrlError", "RepositoryInaccessibleError",
                  "GithubRateLimitError", "GithubUpstreamError",
                  "GithubTimeoutError", "GithubResponseShapeError"} ->
            <<cls, "GithubGateError", "Exception">>
      [] cls \in {"LlmConfigError", "LlmDigestParseError", "LlmRateLimitError",
                  "LlmTimeoutError", "LlmUpstreamError",
                  "LlmOutputValidationError"} ->
            <<cls, "LlmGateError", "Exception">>
      [] cls \in {"RepoProcessorConfigError", "RepoProcessorParseError",
                  "RepoProcessorOutputError"} ->
            <<cls, "RepoProcessorError", "Exception">>
      [] OTHER -> <<cls, "Exception">>

\* the classes main.py registers with @app.exception_handler
HandlerClasses ==
    {"RequestValidationError", "InvalidGithubUrlError",
     "RepositoryInaccessibleError", "GithubRateLimitError",
     "GithubTimeoutError", "GithubResponseShapeError", "GithubUpstreamError",
     "RepoProcessorParseError", "RepoProcessorConfigError",
     "RepoProcessorOutputError", "LlmDigestParseError",
     "LlmOutputValidationError", "LlmRateLimitError", "LlmTimeoutError",
     "LlmUpstreamError", "LlmConfigError", "Exception"}

\* the handler the framework picks: the first class of the exception's
\* method resolution order that has one
RECURSIVE FirstHandled(_)
FirstHandled(mro) ==
    IF Head(mro) \in HandlerClasses THEN Head(mro) ELSE FirstHandled(Tail(mro))

LookupHandler(exc) == FirstHandled(ExceptionMro(exc.cls))

NoResponse == [status_code |-> 0, content |-> [none |-> ""]]

\* _error_response
ErrorResponse(status, message) ==
    [status_code |-> status,
     content |-> [status |-> "error", message |-> message]]

\* JSONResponse(status_code=200, content=result)
SummaryResponse ==
    [status_code |-> 200,
     content |-> [summary |-> "summary", technologies |-> "technologies",
                  structure |-> "structure"]]

UpstreamHandlerStatus_Always503(exc) == 503

\* gh_upstream_handler and llm_upstream_handler
UpstreamHandlerStatus(exc) ==
    IF exc.upstream_status = 429 THEN 429
    ELSE IF exc.upstream_status = 504 THEN 504
    ELSE 503

\* the body of the handler registered for `handler`
HandlerResponse(handler, exc) ==
    CASE handler = "RequestValidationError" ->
            ErrorResponse(400, "Invalid request body.")
      [] handler = "InvalidGithubUrlError" -> ErrorResponse(400, exc.message)
      [] handler = "RepositoryInaccessibleError" -> ErrorResponse(404, exc.message)
      [] handler = "GithubRateLimitError" -> ErrorResponse(429, exc.message)
      [] handler = "GithubTimeoutError" -> ErrorResponse(504, exc.message)
      [] handler = "GithubResponseShapeError" -> ErrorResponse(502, exc.message)
      [] handler = "GithubUpstreamError" ->
            ErrorResponse(UpstreamHandlerStatus(exc), exc.message)
      [] handler = "RepoProcessorParseError" -> ErrorResponse(422, exc.message)
      [] handler = "RepoProcessorConfigError" -> ErrorResponse(500, exc.message)
      [] handler = "RepoProcessorOutputError" -> ErrorResponse(500, exc.message)
      [] handler = "LlmDigestParseError" -> ErrorResponse(422, exc.message)
      [] handler = "LlmOutputValidationError" -> ErrorResponse(502, exc.message)
      [] handler = "LlmRateLimitError" -> ErrorResponse(429, exc.message)
      [] handler = "LlmTimeoutError" -> ErrorResponse(504, exc.message)
      [] handler = "LlmUpstreamError" ->
            ErrorResponse(UpstreamHandlerStatus(exc), exc.message)
      [] handler = "LlmConfigError" -> ErrorResponse(500, exc.message)
      [] handler = "Exception" -> ErrorResponse(500, "Internal server error.")

\* the github_url values the requests carry
EdgeUrls ==
    {EmptyUrlText, BlankUrlText,
     Url(FALSE, "https", "github.com", <<"/", "o", "/", "r">>, FALSE),
     Url(FALSE, "http", "github.com", <<"/", "o", "/", "r">>, FALSE),
     Url(FALSE, "https", "gitlab.com", <<"/", "o", "/", "r">>, FALSE),
     Url(FALSE, "https", "github.com", <<"/", "o">>, FALSE),
     Url(FALSE, "https", "github.com", <<"/", "o", "/", "r", "/", "o">>, FALSE),
     Url(FALSE, "https", "github.com", <<"/", " ", "/", "r">>, FALSE)}

\* a POST /summarize request.  valid_body: the body passes SummarizeRequest;
\* log_name_ok: "requested-<repo name>-<ts>-<id>.log", with the repo name
\* taken from the URL's last segment, is a name the filesystem accepts (it
\* is not when that segment is longer than a file name may be).  The name
\* of an empty URL is "unknown".
EdgeRequest(valid_body, github_url, log_name_ok) ==
    [valid_body |-> valid_body, github_url |-> github_url,
     log_name_ok |-> log_name_ok]

NoRequest == EdgeRequest(FALSE, EmptyUrlText, TRUE)

EdgeRequests ==
    {EdgeRequest(FALSE, EmptyUrlText, TRUE)} \cup
    {EdgeRequest(TRUE, u, TRUE) : u \in EdgeUrls} \cup
    {EdgeRequest(TRUE, u, FALSE) : u \in EdgeUrls \ {EmptyUrlText, BlankUrlText}}

EdgeIdle ==
    /\ edge_pc = "idle"
    /\ edge_request = NoRequest
    /\ edge_exc = NoEdgeExc
    /\ edge_response = NoResponse

EdgeInit ==
    /\ edge_pc = "received"
    /\ edge_request \in EdgeRequests
    /\ edge_exc = NoEdgeExc
    /\ edge_response = NoResponse

\* the framework validates the body against SummarizeRequest before it
\* calls summarize
EdgeValidateBody ==
    /\ edge_pc = "received"
    /\ IF edge_request.valid_body
       THEN /\ edge_pc' = "parse"
            /\ UNCHANGED edge_exc
       ELSE /\ edge_pc' = "handling"
            /\ edge_exc' = EdgeExc("RequestValidationError", "", "", NoStatus)
    /\ UNCHANGED <<edge_request, edge_response>>

\* summarize_service, line 195: repo = github_gate.parse_repo_url(github_url)
EdgeParseRepoUrl ==
    /\ edge_pc = "parse"
    /\ \E parsed \in {parse_repo_url(edge_request.github_url)} :
          IF parsed.raised
          THEN /\ edge_exc' = EdgeExc("InvalidGithubUrlError", parsed.code,
                                      parsed.message, NoStatus)
               /\ edge_pc' = "finally"
          ELSE /\ edge_pc' = "rest"
               /\ UNCHANGED edge_exc
    /\ UNCHANGED <<edge_request, edge_response>>

\* lines 198-357: a later stage raises and the matching except clause
\* re-raises
EdgeServiceRaises ==
    /\ edge_pc = "rest"
    /\ edge_exc' \in ServiceExceptions
    /\ edge_pc' = "finally"
    /\ UNCHANGED <<edge_request, edge_response>>

\* lines 353-357: the service reaches its return statement
EdgeServiceReturns ==
    /\ edge_pc = "rest"
    /\ edge_pc' = "finally"
    /\ UNCHANGED <<edge_request, edge_exc, edge_response>>

\* lines 413-418: the finally block ends with debug.write(); what write()
\* raises replaces the exception, or the return value, on its way out
EdgeFinally ==
    /\ edge_pc = "finally"
    /\ IF edge_request.log_name_ok
       THEN /\ UNCHANGED edge_exc
            /\ edge_pc' = IF edge_exc = NoEdgeExc THEN "returned" ELSE "handling"
       ELSE /\ edge_exc' = EdgeExc("OSError", "", "", NoStatus)
            /\ edge_pc' = "handling"
    /\ UNCHANGED <<edge_request, edge_response>>

\* summarize: return JSONResponse(status_code=200, content=result)
EdgeRespondOk ==
    /\ edge_pc = "returned"
    /\ edge_response' = SummaryResponse
    /\ edge_pc' = "responded"
    /\ UNCHANGED <<edge_request, edge_exc>>

\* the registered handler answers the exception
EdgeHandleException ==
    /\ edge_pc = "handling"
    /\ edge_response' = HandlerResponse(LookupHandler(edge_exc), edge_exc)
    /\ edge_pc' = "responded"
    /\ UNCHANGED <<edge_request, edge_exc>>

(***************************************************************************)
(* LlmGate.summarize (llm_gate/client.py 31-70) up to the retry loop, with *)
(* parse_repo_digest_markdown as a function of the markdown's lines.       *)
(***************************************************************************)
\* longest markdown text tried, in lines
MaxDocLines == 4

\* the lines tried: two headings, an ordinary line, an empty line, the two
\* placeholder bodies and a line of three backticks
DocToks ==
    {"# README", "# Code", "text", "", "Not found", "Not requested", "[fence]"}

Markdowns ==
    {Plain(toks) : toks \in UNION {[1..n -> DocToks] : n \in 0..MaxDocLines}}

\* _known_boundaries: the loop over the lines from line idx + 1 on
RECURSIVE KnownBoundariesFrom(_, _, _, _)
KnownBoundariesFrom(lines, idx, in_fence, boundaries) ==
    IF idx = Len(lines) THEN boundaries
    ELSE KnownBoundariesFrom(
             lines, idx + 1, FenceAfter(in_fence, lines[idx + 1].tok),
             BoundariesAfter(boundaries,
                             FenceAfter(in_fence, lines[idx + 1].tok),
                             lines[idx + 1].tok, idx + 1, "llm_gate"))

KnownBoundaries(lines) == KnownBoundariesFrom(lines, 0, FALSE, <<>>)

DigestParseRaises_Never(boundaries) == FALSE

\* if not boundaries: raise LlmDigestParseError
DigestParseRaises(boundaries) == boundaries = <<>>

\* parse_repo_digest_markdown
ParseRepoDigestMarkdown(lines) ==
    IF DigestParseRaises(KnownBoundaries(lines))
    THEN [raised |-> TRUE, values |-> NoSectionValues]
    ELSE [raised |-> FALSE,
          values |-> DigestValues([field \in FieldsOf("llm_gate") |-> EmptyText],
                                  lines, KnownBoundaries(lines), 1)]

SumIdle ==
    /\ sum_pc = "idle"
    /\ sum_precheck = "ok"
    /\ sum_markdown = <<>>
    /\ sum_digest = NoSectionValues
    /\ sum_raised = ""
    /\ sum_attempts = 0

SumInit ==
    /\ sum_pc = "start"
    /\ sum_precheck \in {"ok", "no_api_key", "bad_options"}
    /\ sum_markdown \in Markdowns
    /\ sum_digest = NoSectionValues
    /\ sum_raised = ""
    /\ sum_attempts = 0

\* lines 32-36: the API key is read and the options are applied; both raise
\* LlmConfigError
SumCheckConfig ==
    /\ sum_pc = "start"
    /\ IF sum_precheck = "ok"
       THEN /\ sum_pc' = "parse"
            /\ UNCHANGED sum_raised
       ELSE /\ sum_pc' = "raised"
            /\ sum_raised' = "llm_config_error"
    /\ UNCHANGED <<sum_precheck, sum_markdown, sum_digest, sum_attempts>>

\* line 37: digest = parse_repo_digest_markdown(markdown_text)
SumParseDigest ==
    /\ sum_pc = "parse"
    /\ \E parsed \in {ParseRepoDigestMarkdown(sum_markdown)} :
          IF parsed.raised
          THEN /\ sum_pc' = "raised"
               /\ sum_raised' = "llm_digest_parse_error"
               /\ UNCHANGED sum_digest
          ELSE /\ sum_pc' = "call"
               /\ sum_digest' = parsed.values
               /\ UNCHANGED sum_raised
    /\ UNCHANGED <<sum_precheck, sum_markdown, sum_attempts>>

\* lines 59-63: a pass of _call_with_retry's loop submits the
\* chat-completions request
SumStartAttempt ==
    /\ sum_pc = "call"
    /\ sum_attempts' = sum_attempts + 1
    /\ sum_pc' = "attempt"
    /\ UNCHANGED <<sum_precheck, sum_markdown, sum_digest, sum_raised>>

\* the attempt ends: the completion is returned and validated, the failure
\* is retried, or the error leaves summarize
SumAttemptEnds ==
    /\ sum_pc = "attempt"
    /\ \/ /\ sum_pc' = "returned"
          /\ UNCHANGED sum_raised
       \/ /\ sum_attempts <= MaxRetriesBound
          /\ sum_pc' = "call"
          /\ UNCHANGED sum_raised
       \/ /\ sum_pc' = "raised"
          /\ sum_raised' \in {"llm_upstream_error", "llm_rate_limit_error",
                              "llm_timeout_error", "llm_output_validation_error"}
    /\ UNCHANGED <<sum_precheck, sum_markdown, sum_digest, sum_attempts>>

(***************************************************************************)
(* _truncate_for_field (repo_processor/processor.py 247-256) on its own.   *)
(***************************************************************************)
\* largest max_bytes tried: two file blocks and their separator fit in it
MaxTruncBytes == 165

\* the section contents tried
TruncContents ==
    {TextContent(chars, width) : chars \in {3, 20}, width \in {1, 2}}
    \cup {NotFoundContent}
    \cup {TreeContent(<<5>>), TreeContent(<<5, 3>>), TreeContent(<<5, 3, 4>>),
          TreeContent(<<20, 3>>)}
    \cup {BlocksContent(<<b>>) : b \in {1, 5}}
    \cup {BlocksContent(<<b1, b2>>) : b1 \in {1, 5}, b2 \in {1, 5}}

NoTruncation == [value |-> Value(0, 0), truncated |-> FALSE]

TrnIdle ==
    /\ trn_pc = "idle"
    /\ trn_field = "readme"
    /\ trn_content = NotFoundContent
    /\ trn_max_bytes = 1
    /\ trn_result = NoTruncation
    /\ trn_selected = <<>>

TrnInit ==
    /\ trn_pc = "called"
    /\ trn_field \in SeqRange(CORE_FIELDS)
    /\ trn_content \in TruncContents
    /\ trn_max_bytes \in 1..MaxTruncBytes
    /\ trn_result = NoTruncation
    /\ trn_selected = <<>>

\* _truncate_for_field(field_name, content, max_bytes)
TrnTruncate ==
    /\ trn_pc = "called"
    /\ trn_result' = TruncateForField(trn_field, trn_content, trn_max_bytes)
    /\ trn_selected' = IF trn_field = "directory_tree"
                           /\ Utf8Len(trn_content) > trn_max_bytes
                       THEN SelectedLines(trn_content, trn_max_bytes)
                       ELSE <<>>
    /\ trn_pc' = "done"
    /\ UNCHANGED <<trn_field, trn_content, trn_max_bytes>>

(***************************************************************************)
(* The baseline steps of process_markdown (repo_processor/processor.py,    *)
(* lines 41-143), one step per `if baseline_total > body_budget` block.    *)
(***************************************************************************)
MaxBslRepoBytes == 280     \* largest max_repo_bytes tried
BslRepoStep == 3           \* spacing of the max_repo_bytes tried

BslBudget == BodyBudget(bsl_max_repo_bytes)

BslIdle ==
    /\ bsl_pc = "idle"
    /\ bsl_doc = NoDoc
    /\ bsl_max_repo_bytes = 0
    /\ bsl_step = 0
    /\ bsl_st = [sections |-> NoSections, notes |-> <<>>]
    /\ bsl_exc = NoOutcome

BslInit ==
    /\ bsl_pc = "called"
    /\ bsl_doc \in ProcDocs
    /\ bsl_max_repo_bytes \in {k * BslRepoStep : k \in 0..(MaxBslRepoBytes \div BslRepoStep)}
    /\ bsl_step = 0
    /\ bsl_st = [sections |-> InitialSections(bsl_doc), notes |-> <<>>]
    /\ bsl_exc = NoOutcome

\* lines 41-50: the untouched digest fits
BslFastPath ==
    /\ bsl_pc = "called"
    /\ RenderedBytes(bsl_st.sections) <= bsl_max_repo_bytes
    /\ bsl_pc' = "returned"
    /\ UNCHANGED <<bsl_doc, bsl_max_repo_bytes, bsl_step, bsl_st, bsl_exc>>

\* lines 52-59: the slow path; the baseline steps are entered on overflow
BslSlowPath ==
    /\ bsl_pc = "called"
    /\ RenderedBytes(bsl_st.sections) > bsl_max_repo_bytes
    /\ bsl_pc' = IF BaselineTotal(bsl_st.sections) > BslBudget
                 THEN "shrink" ELSE "allocate"
    /\ bsl_step' = 1
    /\ UNCHANGED <<bsl_doc, bsl_max_repo_bytes, bsl_st, bsl_exc>>

\* lines 61-135: one baseline step, taken while the total is over budget
BslShrink ==
    /\ bsl_pc = "shrink"
    /\ bsl_st' = IF BaselineTotal(bsl_st.sections) > BslBudget
                 THEN ShrinkField(bsl_st, BaselineShrinkOrder[bsl_step],
                                  bsl_doc, BslBudget)
                 ELSE bsl_st
    /\ bsl_step' = bsl_step + 1
    /\ bsl_pc' = IF bsl_step = Len(BaselineShrinkOrder) THEN "check" ELSE "shrink"
    /\ UNCHANGED <<bsl_doc, bsl_max_repo_bytes, bsl_exc>>

\* lines 137-143: the baseline still overflows
BslRaise ==
    /\ bsl_pc = "check"
    /\ BaselineTotal(bsl_st.sections) > BslBudget
    /\ bsl_pc' = "raised"
    /\ bsl_exc' = Outcome("budget_error", FALSE,
                          [sections |-> NoSections, notes |-> bsl_st.notes],
                          bsl_max_repo_bytes, "line 142")
    /\ UNCHANGED <<bsl_doc, bsl_max_repo_bytes, bsl_step, bsl_st>>

\* lines 137-145: the baseline fits, on to the allocation
BslProceed ==
    /\ bsl_pc = "check"
    /\ BaselineTotal(bsl_st.sections) <= BslBudget
    /\ bsl_pc' = "allocate"
    /\ UNCHANGED <<bsl_doc, bsl_max_repo_bytes, bsl_step, bsl_st, bsl_exc>>

(***************************************************************************)
(* _allocate_optional_bytes (repo_processor/processor.py), one step per    *)
(* pass of its while loop.                                                 *)
(***************************************************************************)
MaxAvailable == 10         \* largest available_bytes tried
MaxCategoryBytes == 5      \* largest category size tried

AlcSizes == {0, 1, 2, MaxCategoryBytes}

SkewedWeights ==
    [documentation |-> 10, build_and_package_data |-> 0, tests |-> 45, code |-> 45]

\* weight maps of configurations that pass validate()
AlcWeights == {DefaultWeights, CodeOnlyWeights, SkewedWeights}

NoAllocation == [name \in SeqRange(OPTIONAL_FIELDS) |-> 0]

AlcIdle ==
    /\ alc_pc = "idle"
    /\ alc_available = 0
    /\ alc_sizes = NoAllocation
    /\ alc_weights = NoWeights
    /\ alc_allocation = NoAllocation
    /\ alc_unsatisfied = {}
    /\ alc_remaining = 0
    /\ alc_exit = "none"

\* the call of line 146: remaining_budget is max(0, ...), never negative
AlcInit ==
    /\ alc_pc = "called"
    /\ alc_available \in 0..MaxAvailable
    /\ alc_sizes \in [SeqRange(OPTIONAL_FIELDS) -> AlcSizes]
    /\ alc_weights \in AlcWeights
    /\ alc_allocation = NoAllocation
    /\ alc_unsatisfied = {}
    /\ alc_remaining = 0
    /\ alc_exit = "none"

LeftoverAvailable == 12    \* available_bytes of the calls of SpecLeftover

\* sizes that leave spare bytes to hand out under the default weights
LeftoverSizes == {0, 2, 4, 7}

\* calls with the weights of ProcessingConfig's defaults
LeftoverInit ==
    /\ alc_pc = "called"
    /\ alc_available \in {LeftoverAvailable - 1, LeftoverAvailable}
    /\ alc_sizes \in [SeqRange(OPTIONAL_FIELDS) -> LeftoverSizes]
    /\ alc_weights = DefaultWeights
    /\ alc_allocation = NoAllocation
    /\ alc_unsatisfied = {}
    /\ alc_remaining = 0
    /\ alc_exit = "none"

\* lines 368-374
AlcStart ==
    /\ alc_pc = "called"
    /\ alc_allocation' = [name \in DOMAIN alc_sizes |-> 0]
    /\ alc_unsatisfied' = {name \in DOMAIN alc_sizes :
                              alc_sizes[name] > 0 /\ alc_weights[name] > 0}
    /\ alc_remaining' = Max2(0, alc_available)
    /\ alc_pc' = "loop"
    /\ UNCHANGED <<alc_available, alc_sizes, alc_weights, alc_exit>>

\* allocation after the increments of the pass that starts in this state
AlcGrown ==
    AddIncrements(alc_allocation, alc_unsatisfied,
                  PassIncrements(alc_allocation, alc_unsatisfied, alc_remaining,
                                 alc_sizes, alc_weights))

\* the test that ends the loop in this state, "" if the pass goes through;
\* grown is the allocation the pass would give
AlcExitGiven(grown) ==
    IF alc_remaining <= 0 THEN "remaining"
    ELSE IF alc_unsatisfied = {} THEN "satisfied"
    ELSE IF SumOver(alc_unsatisfied, alc_weights) <= 0 THEN "total_weight"
    ELSE IF grown = alc_allocation THEN "progress"
    ELSE ""

AlcExit == AlcExitGiven(AlcGrown)

\* lines 376-413: a pass that makes progress
AlcPass ==
    /\ alc_pc = "loop"
    /\ \E grown \in {AlcGrown} :
          /\ AlcExitGiven(grown) = ""
          /\ alc_allocation' = grown
          /\ alc_remaining' = alc_remaining
                                  - (SumOver(DOMAIN grown, grown)
                                       - SumOver(DOMAIN alc_allocation, alc_allocation))
          /\ alc_unsatisfied' = {name \in alc_unsatisfied :
                                    grown[name] < alc_sizes[name]}
    /\ UNCHANGED <<alc_pc, alc_available, alc_sizes, alc_weights, alc_exit>>

\* lines 376, 378, 410 and 415: the loop ends and allocation is returned
AlcReturn ==
    /\ alc_pc = "loop"
    /\ \E exit \in {AlcExit} :
          /\ exit # ""
          /\ alc_exit' = exit
    /\ alc_pc' = "returned"
    /\ UNCHANGED <<alc_available, alc_sizes, alc_weights, alc_allocation,
                   alc_unsatisfied, alc_remaining>>

(***************************************************************************)
(* The metadata cache of one GithubGate instance: get_repo_metadata, and   *)
(* get_tree and get_file_content, which start with get_repo_metadata       *)
(* (github_gate/client.py).  One call of a method is one step; what        *)
(* _run_with_retry gives back for the repos.get request is drawn from      *)
(* MetadataResponses at every request, so the repository may change        *)
(* between two requests.                                                   *)
(***************************************************************************)
MaxMdcCalls == 4            \* calls made on one instance

NoMetadata == [default_branch |-> "", homepage |-> ""]

MdcRepoRefs == {RepoRef("octo", "one"), RepoRef("octo", "two")}

\* line 100: key = (repo.owner, repo.repo)
CacheKey(repo) == <<repo.owner, repo.repo>>

MdcKeys == {CacheKey(repo) : repo \in MdcRepoRefs}

\* what _run_with_retry ends with for api.repos.get: a payload with the
\* fields line 111-118 read, a payload without default_branch, or an error
MetadataResponses ==
    [kind : {"ok"}, default_branch : {"main", "dev"}, homepage : {"", "site"}]
        \cup {[kind |-> "no_default_branch", default_branch |-> "", homepage |-> ""],
              [kind |-> "error", default_branch |-> "", homepage |-> ""]}

CacheHit_Never(cache, key) == FALSE

\* line 101: key in self._metadata_cache
CacheHit(cache, key) == cache[key] # NoMetadata

\* lines 99-123: the cache after the call, whether a request was made, what
\* was raised and the metadata returned
GetRepoMetadata(cache, repo, resp) ==
    LET key == CacheKey(repo) IN
    IF CacheHit(cache, key)
    THEN [cache |-> cache, fetched |-> FALSE, raised |-> "", value |-> cache[key]]
    ELSE IF resp.kind = "error"
    THEN [cache |-> cache, fetched |-> TRUE, raised |-> "GithubUpstreamError",
          value |-> NoMetadata]
    ELSE IF resp.kind = "no_default_branch"
    THEN [cache |-> cache, fetched |-> TRUE, raised |-> "GithubResponseShapeError",
          value |-> NoMetadata]
    ELSE LET metadata == [default_branch |-> resp.default_branch,
                          homepage |-> resp.homepage]
         IN  [cache |-> [cache EXCEPT ![key] = metadata], fetched |-> TRUE,
              raised |-> "", value |-> metadata]

NoMdcCall == [method |-> "none", key |-> <<>>, hit |-> FALSE, raised |-> "",
              value |-> NoMetadata]

MdcIdle ==
    /\ mdc_pc = "idle"
    /\ mdc_cache = <<>>
    /\ mdc_fetches = <<>>
    /\ mdc_first = <<>>
    /\ mdc_last = NoMdcCall
    /\ mdc_calls = 0

\* GithubGate.__init__, line 60: self._metadata_cache = {}
MdcInit ==
    /\ mdc_pc = "constructed"
    /\ mdc_cache = [key \in MdcKeys |-> NoMetadata]
    /\ mdc_fetches = [key \in MdcKeys |-> 0]
    /\ mdc_first = [key \in MdcKeys |-> NoMetadata]
    /\ mdc_last = NoMdcCall
    /\ mdc_calls = 0

\* a call of `method` for `repo`: get_repo_metadata first, then the method's
\* own request when there is one; own_raises is how that request ends
MdcCall(method, repo, resp, own_raises) ==
    LET key == CacheKey(repo)
        got == GetRepoMetadata(mdc_cache, repo, resp)
    IN  /\ mdc_pc = "constructed"
        /\ mdc_calls < MaxMdcCalls
        /\ mdc_calls' = mdc_calls + 1
        /\ mdc_cache' = got.cache
        /\ mdc_fetches' = IF got.fetched
                          THEN [mdc_fetches EXCEPT ![key] = @ + 1]
                          ELSE mdc_fetches
        /\ mdc_first' = IF mdc_first[key] = NoMetadata /\ got.raised = ""
                        THEN [mdc_first EXCEPT ![key] = got.value]
                        ELSE mdc_first
        /\ mdc_last' = [method |-> method, key |-> key, hit |-> ~got.fetched,
                        raised |-> IF got.raised # "" THEN got.raised ELSE own_raises,
                        value |-> got.value]
        /\ UNCHANGED mdc_pc

\* get_repo_metadata(repo), lines 99-123
MdcGetRepoMetadata ==
    \E repo \in MdcRepoRefs, resp \in MetadataResponses :
        MdcCall("get_repo_metadata", repo, resp, "")

\* get_tree(repo), lines 134-174: metadata, then the git.get_tree request
MdcGetTree ==
    \E repo \in MdcRepoRefs, resp \in MetadataResponses,
       own_raises \in {"", "GithubUpstreamError", "GithubResponseShapeError"} :
        MdcCall("get_tree", repo, resp, own_raises)

\* get_file_content(repo, path), lines 201-223: metadata, then the
\* repos.get_content request
MdcGetFileContent ==
    \E repo \in MdcRepoRefs, resp \in MetadataResponses,
       own_raises \in {"", "GithubUpstreamError", "GithubResponseShapeError"} :
        MdcCall("get_file_content", repo, resp, own_raises)

(***************************************************************************)
(* summarize_service (main.py 182-418) as its RequestDebugLog sees it: the *)
(* lines added, the status code the except clauses set, and the finally    *)
(* block.  One step per stage of the try block.                            *)
(***************************************************************************)
MaxLogWarnings == 2        \* most warnings the fetch stage logs

LogLine(text) == [text |-> text, status |-> NoStatus]
\* f"request_end status={status_code} latency_ms={latency_ms}"
RequestEndLine(status_code) == [text |-> "request_end", status |-> status_code]

DbgStages == <<"verify", "github_fetch", "repo_processor", "llm_call">>

\* exceptions that leave each stage of the try block
DbgStageRaises(stage) ==
    {"Exception"} \cup
    CASE stage = "verify" ->
            {"InvalidGithubUrlError", "RepositoryInaccessibleError",
             "GithubRateLimitError", "GithubTimeoutError"}
      [] stage = "github_fetch" ->
            {"GithubRateLimitError", "GithubTimeoutError",
             "GithubResponseShapeError"}
      [] stage = "repo_processor" ->
            {"RepoProcessorParseError", "RepoProcessorConfigError",
             "RepoProcessorOutputError"}
      [] stage = "llm_call" ->
            {"LlmDigestParseError", "LlmOutputValidationError",
             "LlmRateLimitError", "LlmTimeoutError", "LlmConfigError"}

DbgLlmErrors ==
    {"LlmDigestParseError", "LlmOutputValidationError", "LlmRateLimitError",
     "LlmTimeoutError", "LlmConfigError"}

\* the except clauses of lines 359-412: the status_code each one sets
ExceptStatusCode(name) ==
    CASE name = "InvalidGithubUrlError" -> 400
      [] name = "RepositoryInaccessibleError" -> 404
      [] name \in {"GithubRateLimitError", "LlmRateLimitError"} -> 429
      [] name \in {"GithubTimeoutError", "LlmTimeoutError"} -> 504
      [] name \in {"GithubResponseShapeError", "LlmOutputValidationError"} -> 502
      [] name \in {"RepoProcessorParseError", "LlmDigestParseError"} -> 422
      [] OTHER -> 500

\* the lines an except clause adds: _log_llm_exception for the LLM errors
ExceptLines(name) ==
    IF name \in DbgLlmErrors THEN <<LogLine("llm_error")>> ELSE <<>>

\* lines a stage adds before its calls
StageStartLines(stage) ==
    CASE stage = "verify" -> <<>>
      [] stage = "github_fetch" ->
            <<LogLine("section=github_fetch"), LogLine("github_fetch_start")>>
      [] stage = "repo_processor" ->
            <<LogLine("section=repo_processor"), LogLine("repo_process_start")>>
      [] stage = "llm_call" ->
            <<LogLine("llm_input"), LogLine("section=llm_call"), LogLine("llm_start")>>

\* lines a stage adds once its calls have returned
StageDoneLines(stage, warnings) ==
    CASE stage = "verify" -> <<>>
      [] stage = "github_fetch" ->
            <<LogLine("github_fetch_done")>>
                \o [i \in 1..warnings |-> LogLine("github_warning")]
      [] stage = "repo_processor" -> <<LogLine("repo_process_done")>>
      [] stage = "llm_call" -> <<LogLine("llm_done")>>

\* lines 416-417
FinalLines_Unlogged(status_code) == <<>>

FinalLines(status_code) ==
    <<LogLine("section=final_status"), RequestEndLine(status_code)>>

DbgIdle ==
    /\ dbg_pc = "idle"
    /\ dbg_env = [runtime_config |-> TRUE, logs_writable |-> TRUE, warnings |-> 0]
    /\ dbg_lines = <<>>
    /\ dbg_status = NoStatus
    /\ dbg_raised = ""
    /\ dbg_write_calls = 0
    /\ dbg_files = <<>>

DbgInit ==
    /\ dbg_pc = "start"
    /\ dbg_env \in [runtime_config : BOOLEAN, logs_writable : BOOLEAN,
                    warnings : 0..MaxLogWarnings]
    /\ dbg_lines = <<>>
    /\ dbg_status = NoStatus
    /\ dbg_raised = ""
    /\ dbg_write_calls = 0
    /\ dbg_files = <<>>

\* lines 183-188: the log is created and takes its first two lines
DbgStart ==
    /\ dbg_pc = "start"
    /\ dbg_lines' = <<LogLine("section=request_metadata"), LogLine("request_start")>>
    /\ dbg_pc' = "gates"
    /\ UNCHANGED <<dbg_env, dbg_status, dbg_raised, dbg_write_calls, dbg_files>>

\* lines 191-193: GithubGate(), LlmGate() and status_code = 200, outside the
\* try statement; LlmGateConfig.from_runtime_file raises LlmConfigError
\* without a usable config/runtime.json
DbgMakeGates ==
    /\ dbg_pc = "gates"
    /\ IF dbg_env.runtime_config
       THEN /\ dbg_status' = 200
            /\ dbg_pc' = "verify"
            /\ UNCHANGED dbg_raised
       ELSE /\ dbg_raised' = "LlmConfigError"
            /\ dbg_pc' = "out"
            /\ UNCHANGED dbg_status
    /\ UNCHANGED <<dbg_env, dbg_lines, dbg_write_calls, dbg_files>>

\* a stage of the try block: its lines, then on to the next stage, to the
\* return statement, or into the except clause of what it raised
DbgStage(k) ==
    /\ dbg_pc = DbgStages[k]
    /\ \/ /\ dbg_lines' = dbg_lines \o StageStartLines(DbgStages[k])
                              \o StageDoneLines(DbgStages[k], dbg_env.warnings)
          /\ dbg_pc' = IF k < Len(DbgStages) THEN DbgStages[k + 1] ELSE "finally"
          /\ UNCHANGED <<dbg_status, dbg_raised>>
       \/ \E name \in DbgStageRaises(DbgStages[k]) :
             /\ dbg_lines' = dbg_lines \o StageStartLines(DbgStages[k])
                                 \o ExceptLines(name)
             /\ dbg_status' = ExceptStatusCode(name)
             /\ dbg_raised' = name
             /\ dbg_pc' = "finally"
    /\ UNCHANGED <<dbg_env, dbg_write_calls, dbg_files>>

DbgVerify == DbgStage(1)
DbgGithubFetch == DbgStage(2)
DbgRepoProcessor == DbgStage(3)
DbgLlmCall == DbgStage(4)

\* lines 413-418: the two last lines, then debug.write(); an OSError of
\* write() takes the place of the return value or of the exception
DbgFinally ==
    /\ dbg_pc = "finally"
    /\ dbg_lines' = dbg_lines \o FinalLines(dbg_status)
    /\ dbg_write_calls' = dbg_write_calls + 1
    /\ IF dbg_env.logs_writable
       THEN /\ dbg_files' = Append(dbg_files, dbg_lines')
            /\ UNCHANGED dbg_raised
       ELSE /\ dbg_raised' = "OSError"
            /\ UNCHANGED dbg_files
    /\ dbg_pc' = "out"
    /\ UNCHANGED <<dbg_env, dbg_status>>

InitRetry == RRInit /\ ColIdle /\ ProcIdle /\ SvcIdle /\ LcrIdle /\ PrsIdle /\ NrmIdle /\ UrlIdle /\ EdgeIdle /\ SumIdle /\ TrnIdle /\ BslIdle /\ AlcIdle /\ MdcIdle /\ DbgIdle

RetryFrame == UNCHANGED <<col_vars, proc_vars, svc_vars, lcr_vars, prs_vars, nrm_vars, url_vars, edge_vars, sum_vars, trn_vars, bsl_vars, alc_vars, mdc_vars, dbg_vars>>

NextRetry ==
    \/ RRStartAttempt /\ RetryFrame
    \/ RRLoopExhausted /\ RetryFrame
    \/ RROpReturns /\ RetryFrame
    \/ RROpRaises /\ RetryFrame
    \/ RRDeadline /\ RetryFrame
    \/ RRLateWorkerEnds /\ RetryFrame
    \/ RRTimeoutHandled /\ RetryFrame
    \/ RRWake /\ RetryFrame

SpecRetry == InitRetry /\ [][NextRetry]_vars

InitCollect == ColInit /\ RRIdle /\ ProcIdle /\ SvcIdle /\ LcrIdle /\ PrsIdle /\ NrmIdle /\ UrlIdle /\ EdgeIdle /\ SumIdle /\ TrnIdle /\ BslIdle /\ AlcIdle /\ MdcIdle /\ DbgIdle

CollectFrame == UNCHANGED <<rr_vars, proc_vars, svc_vars, lcr_vars, prs_vars, nrm_vars, url_vars, edge_vars, sum_vars, trn_vars, bsl_vars, alc_vars, mdc_vars, dbg_vars>>

NextCollect ==
    \/ ColHomepage /\ CollectFrame
    \/ ColStep /\ CollectFrame
    \/ ColReturn /\ CollectFrame

SpecCollect == InitCollect /\ [][NextCollect]_vars

InitProc == ProcInit /\ RRIdle /\ ColIdle /\ SvcIdle /\ LcrIdle /\ PrsIdle /\ NrmIdle /\ UrlIdle /\ EdgeIdle /\ SumIdle /\ TrnIdle /\ BslIdle /\ AlcIdle /\ MdcIdle /\ DbgIdle

ProcFrame == UNCHANGED <<rr_vars, col_vars, svc_vars, lcr_vars, prs_vars, nrm_vars, url_vars, edge_vars, sum_vars, trn_vars, bsl_vars, alc_vars, mdc_vars, dbg_vars>>

NextProc ==
    \/ ProcValidateFails /\ ProcFrame
    \/ ProcProcess /\ ProcFrame

SpecProc == InitProc /\ [][NextProc]_vars

InitService == SvcInit /\ RRIdle /\ ColIdle /\ ProcIdle /\ LcrIdle /\ PrsIdle /\ NrmIdle /\ UrlIdle /\ EdgeIdle /\ SumIdle /\ TrnIdle /\ BslIdle /\ AlcIdle /\ MdcIdle /\ DbgIdle

ServiceFrame == UNCHANGED <<rr_vars, col_vars, proc_vars, lcr_vars, prs_vars, nrm_vars, url_vars, edge_vars, sum_vars, trn_vars, bsl_vars, alc_vars, mdc_vars, dbg_vars>>

NextService ==
    \/ SvcParseRepoUrl /\ ServiceFrame
    \/ SvcVerifyRepoAccess /\ ServiceFrame
    \/ SvcFetchBaseline /\ ServiceFrame
    \/ SvcFetchOptional /\ ServiceFrame
    \/ SvcRenderFull /\ ServiceFrame
    \/ SvcProcess /\ ServiceFrame
    \/ SvcUseProcessed /\ ServiceFrame
    \/ SvcLlmCall /\ ServiceFrame
    \/ SvcHandleLlmError /\ ServiceFrame
    \/ SvcRetryProcess /\ ServiceFrame
    \/ SvcRetryLlmCall /\ ServiceFrame

SpecService == InitService /\ [][NextService]_vars

InitLlmRetry == LcrInit /\ RRIdle /\ ColIdle /\ ProcIdle /\ SvcIdle /\ PrsIdle /\ NrmIdle /\ UrlIdle /\ EdgeIdle /\ SumIdle /\ TrnIdle /\ BslIdle /\ AlcIdle /\ MdcIdle /\ DbgIdle

LlmRetryFrame == UNCHANGED <<rr_vars, col_vars, proc_vars, svc_vars, prs_vars, nrm_vars, url_vars, edge_vars, sum_vars, trn_vars, bsl_vars, alc_vars, mdc_vars, dbg_vars>>

NextLlmRetry ==
    \/ LcrStartAttempt /\ LlmRetryFrame
    \/ LcrOpReturns /\ LlmRetryFrame
    \/ LcrOpRaises /\ LlmRetryFrame
    \/ LcrDeadline /\ LlmRetryFrame
    \/ LcrTimeoutHandled /\ LlmRetryFrame
    \/ LcrLateWorkerEnds /\ LlmRetryFrame
    \/ LcrWake /\ LlmRetryFrame

SpecLlmRetry == InitLlmRetry /\ [][NextLlmRetry]_vars

InitParse == PrsInit /\ RRIdle /\ ColIdle /\ ProcIdle /\ SvcIdle /\ LcrIdle /\ NrmIdle /\ UrlIdle /\ EdgeIdle /\ SumIdle /\ TrnIdle /\ BslIdle /\ AlcIdle /\ MdcIdle /\ DbgIdle

ParseFrame == UNCHANGED <<rr_vars, col_vars, proc_vars, svc_vars, lcr_vars, nrm_vars, url_vars, edge_vars, sum_vars, trn_vars, bsl_vars, alc_vars, mdc_vars, dbg_vars>>

NextParse ==
    \/ PrsScanLine /\ ParseFrame
    \/ PrsSlice /\ ParseFrame
    \/ PrsRender /\ ParseFrame

SpecParse == InitParse /\ [][NextParse]_vars

InitNormalize == NrmInit /\ RRIdle /\ ColIdle /\ ProcIdle /\ SvcIdle /\ LcrIdle /\ PrsIdle /\ UrlIdle /\ EdgeIdle /\ SumIdle /\ TrnIdle /\ BslIdle /\ AlcIdle /\ MdcIdle /\ DbgIdle

NormalizeFrame == UNCHANGED <<rr_vars, col_vars, proc_vars, svc_vars, lcr_vars, prs_vars, url_vars, edge_vars, sum_vars, trn_vars, bsl_vars, alc_vars, mdc_vars, dbg_vars>>

NextNormalize ==
    \/ NrmNormalize /\ NormalizeFrame
    \/ NrmNormalizeAgain /\ NormalizeFrame

SpecNormalize == InitNormalize /\ [][NextNormalize]_vars

InitUrl == UrlInit /\ RRIdle /\ ColIdle /\ ProcIdle /\ SvcIdle /\ LcrIdle /\ PrsIdle /\ NrmIdle /\ EdgeIdle /\ SumIdle /\ TrnIdle /\ BslIdle /\ AlcIdle /\ MdcIdle /\ DbgIdle

UrlFrame == UNCHANGED <<rr_vars, col_vars, proc_vars, svc_vars, lcr_vars, prs_vars, nrm_vars, edge_vars, sum_vars, trn_vars, bsl_vars, alc_vars, mdc_vars, dbg_vars>>

NextUrl ==
    \/ UrlParseRepoUrl /\ UrlFrame

SpecUrl == InitUrl /\ [][NextUrl]_vars

InitEdge == EdgeInit /\ RRIdle /\ ColIdle /\ ProcIdle /\ SvcIdle /\ LcrIdle /\ PrsIdle /\ NrmIdle /\ UrlIdle /\ SumIdle /\ TrnIdle /\ BslIdle /\ AlcIdle /\ MdcIdle /\ DbgIdle

EdgeFrame == UNCHANGED <<rr_vars, col_vars, proc_vars, svc_vars, lcr_vars, prs_vars, nrm_vars, url_vars, sum_vars, trn_vars, bsl_vars, alc_vars, mdc_vars, dbg_vars>>

NextEdge ==
    \/ EdgeValidateBody /\ EdgeFrame
    \/ EdgeParseRepoUrl /\ EdgeFrame
    \/ EdgeServiceRaises /\ EdgeFrame
    \/ EdgeServiceReturns /\ EdgeFrame
    \/ EdgeFinally /\ EdgeFrame
    \/ EdgeRespondOk /\ EdgeFrame
    \/ EdgeHandleException /\ EdgeFrame

SpecEdge == InitEdge /\ [][NextEdge]_vars

InitSummarize == SumInit /\ RRIdle /\ ColIdle /\ ProcIdle /\ SvcIdle /\ LcrIdle /\ PrsIdle /\ NrmIdle /\ UrlIdle /\ EdgeIdle /\ TrnIdle /\ BslIdle /\ AlcIdle /\ MdcIdle /\ DbgIdle

SummarizeFrame == UNCHANGED <<rr_vars, col_vars, proc_vars, svc_vars, lcr_vars, prs_vars, nrm_vars, url_vars, edge_vars, trn_vars, bsl_vars, alc_vars, mdc_vars, dbg_vars>>

NextSummarize ==
    \/ SumCheckConfig /\ SummarizeFrame
    \/ SumParseDigest /\ SummarizeFrame
    \/ SumStartAttempt /\ SummarizeFrame
    \/ SumAttemptEnds /\ SummarizeFrame

SpecSummarize == InitSummarize /\ [][NextSummarize]_vars

InitTruncate == TrnInit /\ RRIdle /\ ColIdle /\ ProcIdle /\ SvcIdle /\ LcrIdle /\ PrsIdle /\ NrmIdle /\ UrlIdle /\ EdgeIdle /\ SumIdle /\ BslIdle /\ AlcIdle /\ MdcIdle /\ DbgIdle

TruncateFrame == UNCHANGED <<rr_vars, col_vars, proc_vars, svc_vars, lcr_vars, prs_vars, nrm_vars, url_vars, edge_vars, sum_vars, bsl_vars, alc_vars, mdc_vars, dbg_vars>>

NextTruncate ==
    \/ TrnTruncate /\ TruncateFrame

SpecTruncate == InitTruncate /\ [][NextTruncate]_vars

InitBaseline == BslInit /\ RRIdle /\ ColIdle /\ ProcIdle /\ SvcIdle /\ LcrIdle /\ PrsIdle /\ NrmIdle /\ UrlIdle /\ EdgeIdle /\ SumIdle /\ TrnIdle /\ AlcIdle /\ MdcIdle /\ DbgIdle

BaselineFrame == UNCHANGED <<rr_vars, col_vars, proc_vars, svc_vars, lcr_vars, prs_vars, nrm_vars, url_vars, edge_vars, sum_vars, trn_vars, alc_vars, mdc_vars, dbg_vars>>

NextBaseline ==
    \/ BslFastPath /\ BaselineFrame
    \/ BslSlowPath /\ BaselineFrame
    \/ BslShrink /\ BaselineFrame
    \/ BslRaise /\ BaselineFrame
    \/ BslProceed /\ BaselineFrame

SpecBaseline == InitBaseline /\ [][NextBaseline]_vars

InitAlloc == AlcInit /\ RRIdle /\ ColIdle /\ ProcIdle /\ SvcIdle /\ LcrIdle /\ PrsIdle /\ NrmIdle /\ UrlIdle /\ EdgeIdle /\ SumIdle /\ TrnIdle /\ BslIdle /\ MdcIdle /\ DbgIdle

AllocFrame == UNCHANGED <<rr_vars, col_vars, proc_vars, svc_vars, lcr_vars, prs_vars, nrm_vars, url_vars, edge_vars, sum_vars, trn_vars, bsl_vars, mdc_vars, dbg_vars>>

NextAlloc ==
    \/ AlcStart /\ AllocFrame
    \/ AlcPass /\ AllocFrame
    \/ AlcReturn /\ AllocFrame

SpecAlloc == InitAlloc /\ [][NextAlloc]_vars

InitLeftover == LeftoverInit /\ RRIdle /\ ColIdle /\ ProcIdle /\ SvcIdle /\ LcrIdle /\ PrsIdle /\ NrmIdle /\ UrlIdle /\ EdgeIdle /\ SumIdle /\ TrnIdle /\ BslIdle /\ MdcIdle /\ DbgIdle

SpecLeftover == InitLeftover /\ [][NextAlloc]_vars

InitMeta == MdcInit /\ RRIdle /\ ColIdle /\ ProcIdle /\ SvcIdle /\ LcrIdle /\ PrsIdle /\ NrmIdle /\ UrlIdle /\ EdgeIdle /\ SumIdle /\ TrnIdle /\ BslIdle /\ AlcIdle /\ DbgIdle

MetaFrame == UNCHANGED <<rr_vars, col_vars, proc_vars, svc_vars, lcr_vars, prs_vars, nrm_vars, url_vars, edge_vars, sum_vars, trn_vars, bsl_vars, alc_vars, dbg_vars>>

NextMeta ==
    \/ MdcGetRepoMetadata /\ MetaFrame
    \/ MdcGetTree /\ MetaFrame
    \/ MdcGetFileContent /\ MetaFrame

SpecMeta == InitMeta /\ [][NextMeta]_vars

InitDebugLog == DbgInit /\ RRIdle /\ ColIdle /\ ProcIdle /\ SvcIdle /\ LcrIdle /\ PrsIdle /\ NrmIdle /\ UrlIdle /\ EdgeIdle /\ SumIdle /\ TrnIdle /\ BslIdle /\ AlcIdle /\ MdcIdle

DebugLogFrame == UNCHANGED <<rr_vars, col_vars, proc_vars, svc_vars, lcr_vars, prs_vars, nrm_vars, url_vars, edge_vars, sum_vars, trn_vars, bsl_vars, alc_vars, mdc_vars>>

NextDebugLog ==
    \/ DbgStart /\ DebugLogFrame
    \/ DbgMakeGates /\ DebugLogFrame
    \/ DbgVerify /\ DebugLogFrame
    \/ DbgGithubFetch /\ DebugLogFrame
    \/ DbgRepoProcessor /\ DebugLogFrame
    \/ DbgLlmCall /\ DebugLogFrame
    \/ DbgFinally /\ DebugLogFrame

SpecDebugLog == InitDebugLog /\ [][NextDebugLog]_vars

(***************************************************************************)
(* Claims about GithubGate._run_with_retry                                 *)
(***************************************************************************)
\* The error the latest attempt ended in, as the caller or the loop holds it.
RRErr == IF rr_pc = "raised" THEN rr_raised ELSE rr_last_exc

\* The latest attempt failed and its except-branch has run.
RRHandled ==
    /\ rr_pc \in {"sleeping", "loop", "raised"}
    /\ rr_failure.cls \notin {"none", "success"}

\* The latest failure was treated as retryable: it did not raise at once, a
\* backoff follows whenever an attempt is left, and it is raised only after
\* the last attempt.
RRRetried ==
    /\ ~rr_terminal
    /\ (rr_attempt < rr_max_retries + 1 => rr_pc \in {"sleeping", "loop"})
    /\ (rr_pc = "raised" => rr_calls = rr_max_retries + 1)

\* C8: _run_with_retry invokes the operation at most max_retries + 1 times;
\* when every attempt fails with a retryable failure it makes exactly
\* max_retries + 1 attempts, sleeps only between attempts (never after the
\* last one) and raises the error of the last attempt; a terminal failure is
\* raised on the attempt where it occurs; a success returns at once.
C8_RetryBound ==
    /\ rr_calls <= rr_max_retries + 1
    /\ rr_calls = rr_attempt
    /\ rr_sleeps <= rr_max_retries
    /\ (rr_pc = "sleeping" => rr_sleeps = rr_calls /\ rr_calls < rr_max_retries + 1)
    /\ (rr_pc = "loop" /\ rr_calls > 0 /\ rr_calls < rr_max_retries + 1 =>
          rr_sleeps = rr_calls)
    /\ (rr_pc = "loop" /\ rr_calls = rr_max_retries + 1 => rr_sleeps = rr_max_retries)
    /\ (rr_pc \in {"result", "executor_exit", "raised", "returned"} =>
          rr_sleeps = rr_calls - 1)
    /\ (rr_pc = "raised" /\ ~rr_terminal =>
          /\ rr_calls = rr_max_retries + 1
          /\ rr_sleeps = rr_max_retries
          /\ rr_raised = rr_last_exc
          /\ (rr_failure.cls = "deadline" => rr_raised.code = "github_timeout")
          /\ (rr_failure.cls # "deadline" =>
                rr_raised.code \in {"github_upstream_error", "github_rate_limited"})
          /\ (rr_failure.status \in RETRYABLE_STATUSES =>
                rr_raised.upstream_status = rr_failure.status))
    /\ (rr_terminal => rr_pc = "raised")
    /\ (rr_failure.cls = "success" <=> rr_pc = "returned")

\* All attempts failed with retryable failures and the last error was raised
\* after max_retries + 1 attempts, with more than one attempt made.
C8_Witness ==
    /\ rr_pc = "raised"
    /\ ~rr_terminal
    /\ rr_max_retries = MaxRetriesBound
    /\ rr_calls = rr_max_retries + 1
    /\ rr_sleeps = rr_max_retries

\* C9: the failure mapping of _run_with_retry: 404 -> repository_inaccessible
\* (terminal); 403 with a rate-limit signal -> rate_limited (retryable); any
\* other 403 -> repository_inaccessible (terminal); 400/401 -> upstream_error
\* (not retried); 429/502/503/504 -> upstream_error (retryable); network
\* errors -> upstream_error (retryable); deadline exceeded -> timeout
\* (retryable).
C9_StatusMapping ==
    RRHandled =>
      /\ (rr_failure.status = 404 =>
            RRErr.code = "repository_inaccessible" /\ rr_terminal /\ rr_pc = "raised")
      /\ (rr_failure.status = 403 /\ rr_failure.rate_text =>
            RRErr.code = "github_rate_limited" /\ RRRetried)
      /\ (rr_failure.status = 403 /\ ~rr_failure.rate_text =>
            RRErr.code = "repository_inaccessible" /\ rr_terminal /\ rr_pc = "raised")
      /\ (rr_failure.status \in {400, 401} =>
            RRErr.code = "github_upstream_error" /\ rr_terminal /\ rr_pc = "raised")
      /\ (rr_failure.status \in {429, 502, 503, 504} =>
            /\ RRErr.code = "github_upstream_error"
            /\ RRErr.upstream_status = rr_failure.status
            /\ RRRetried)
      /\ (rr_failure.cls = "network" =>
            RRErr.code = "github_upstream_error" /\ RRRetried)
      /\ (rr_failure.cls = "deadline" =>
            RRErr.code = "github_timeout" /\ RRRetried)

\* A 403 carrying a rate-limit signal has been mapped and is being retried.
C9_Witness ==
    /\ rr_pc = "sleeping"
    /\ rr_failure.status = 403
    /\ rr_failure.rate_text
    /\ rr_last_exc.code = "github_rate_limited"

\* C10: when the worker has not finished by the attempt's deadline, the
\* request thread records the timeout and goes on (to the backoff, the next
\* attempt or the raise) without waiting for the worker's call to complete.
C10_ProceedsWithoutWorker ==
    (rr_pc = "executor_exit" /\ rr_worker = "running") => ENABLED RRTimeoutHandled

\* The deadline of an attempt has passed while its worker is still running.
C10_Witness ==
    /\ rr_pc = "executor_exit"
    /\ rr_worker = "running"

(***************************************************************************)
(* Claims about category extraction                                        *)
(***************************************************************************)
\* C7: whatever the candidates, tree-reported sizes, downloaded sizes and
\* download failures, after every iteration the list a category extraction
\* has built satisfies: every file's byte_size is at most
\* max_single_file_bytes, the sum of byte_size is at most the category's
\* total-bytes cap, and for build/package and code the number of files is at
\* most the category's file-count cap.
C7_CategoryCaps ==
    /\ \A i \in 1..Len(col_files) : col_files[i] <= col_limits.single
    /\ SumSeq(col_files) <= CategoryCap(col_category, col_limits)
    /\ (HasFileCap(col_category) => Len(col_files) <= col_limits.max_files)

\* A file has just been selected although the tree reported no size for it
\* (or a smaller one), and the category is now exactly at its byte cap.
C7_Witness ==
    /\ col_pc \in {"loop", "done"}
    /\ col_last = "selected"
    /\ Len(col_files) >= 2
    /\ SumSeq(col_files) = CategoryCap(col_category, col_limits)

(***************************************************************************)
(* Claims about process_markdown                                           *)
(***************************************************************************)
\* floor(model_context_window_tokens * max_repo_data_ratio_in_prompt
\*       * bytes_per_token_estimate) of the configuration of the call
C5_Bound ==
    (proc_cfg.model_context_window_tokens * proc_cfg.bytes_per_token_estimate
        * proc_cfg.max_repo_data_ratio_in_prompt.num)
    \div proc_cfg.max_repo_data_ratio_in_prompt.den

\* C5: every ProcessedRepoMarkdown that process_markdown returns normally, on
\* the fast path or after truncation, renders to at most
\* max_repo_data_size_for_prompt_bytes = floor(tokens * ratio * bytes per
\* token) bytes; a result that renders to more is never returned, it only
\* ever comes attached to a raised budget_error.
C5_ReturnedWithinBudget ==
    (proc_pc = "done" /\ proc_result.kind \in {"returned", "budget_error"}) =>
        /\ proc_result.max_repo_data_size_for_prompt_bytes = C5_Bound
        /\ proc_result.kind = "returned" =>
              /\ proc_result.has_processed
              /\ proc_result.output_total_utf8_bytes <= C5_Bound
        /\ (proc_result.has_processed
                /\ proc_result.output_total_utf8_bytes > C5_Bound) =>
              proc_result.kind = "budget_error"

\* a truncated digest that was returned normally
C5_Witness ==
    /\ proc_pc = "done"
    /\ proc_result.kind = "returned"
    /\ proc_result.truncation_notes # <<>>
    /\ proc_result.output_total_utf8_bytes <= C5_Bound
    /\ proc_result.output_total_utf8_bytes > 0

(***************************************************************************)
(* Claims about summarize_service                                          *)
(***************************************************************************)
\* number of times `name` has been called so far
SvcCallCount(name) == Cardinality({i \in DOMAIN svc_calls : svc_calls[i] = name})

\* the k-th llm_gate.summarize call raised a context-window overflow: an
\* LlmUpstreamError that parses to (N, M) with M > 0
SvcOverflowAt(k) ==
    /\ k \in DOMAIN svc_llm_out
    /\ svc_llm_out[k].exc.cls = "LlmUpstreamError"
    /\ ParseContextWindowOverflow(svc_llm_out[k].exc).found
    /\ ParseContextWindowOverflow(svc_llm_out[k].exc).request_tokens > 0

\* C1: within one summarize_service request llm_gate.summarize is called at
\* most twice; an overflow raised by the first call is followed by exactly
\* one reprocessing and one more call, and whatever the second call raises,
\* an overflow included, leaves the request as its error with no third call.
C1_AtMostTwoLlmCalls ==
    /\ SvcCallCount("llm_summarize") <= 2
    /\ SvcCallCount("llm_summarize") = Len(svc_llm_out)
    /\ SvcCallCount("llm_summarize") = 2 =>
          /\ SvcOverflowAt(1)
          /\ SvcCallCount("process_markdown") = 2
    /\ (SvcOverflowAt(1) /\ svc_pc \in {"done", "failed"}) =>
          /\ SvcCallCount("llm_summarize") = 2
          /\ SvcCallCount("process_markdown") = 2
    /\ (Len(svc_llm_out) = 2 /\ svc_llm_out[2].exc # NoError) =>
          /\ svc_pc = "failed"
          /\ svc_error = svc_llm_out[2].exc

\* the second call raised an overflow too, and the request ended with it
C1_Witness ==
    /\ svc_pc = "failed"
    /\ SvcCallCount("llm_summarize") = 2
    /\ SvcOverflowAt(1)
    /\ SvcOverflowAt(2)
    /\ svc_error = svc_llm_out[2].exc

\* C2: when the provider answers the chat-completions POST with HTTP 400
\* whose message says "maximum context length is N tokens ... request has M
\* input tokens", the error LlmGate.summarize raises carries that message, so
\* that summarize_service recovers (N, M) and retries once instead of failing
\* the request on the first 400.
C2_OverflowMessageKept ==
    \A k \in DOMAIN svc_llm_out :
        (/\ svc_gate = "LlmGate"
         /\ svc_llm_out[k].resp.kind = "status"
         /\ svc_llm_out[k].resp.status = 400
         /\ svc_llm_out[k].resp.overflow
         /\ svc_llm_out[k].resp.request_tokens > 0) =>
            /\ ParseContextWindowOverflow(svc_llm_out[k].exc) =
                  [found |-> TRUE,
                   max_tokens |-> svc_llm_out[k].resp.max_tokens,
                   request_tokens |-> svc_llm_out[k].resp.request_tokens]
            /\ (k = 1 /\ svc_pc = "failed") => SvcCallCount("llm_summarize") = 2

\* the shipped gate, an overflow 400 on the first call, and the request has
\* failed with 503 after that one call
C2_Witness ==
    /\ svc_gate = "LlmGate"
    /\ svc_pc = "failed"
    /\ Len(svc_llm_out) = 1
    /\ svc_llm_out[1].resp.status = 400
    /\ svc_llm_out[1].resp.overflow
    /\ svc_llm_out[1].resp.request_tokens > 0
    /\ svc_status = 503

\* C3: on the adaptive-retry path, for every valid current ratio r and every
\* parsed N > 0, M > 0, the retry ratio r' is strictly lower than r, at most
\* 0.90 * r, and at least 0.05.
C3_RetryRatioLower ==
    (svc_ratio # NoRatio
        /\ ParseContextWindowOverflow(svc_llm_out[1].exc).max_tokens > 0
        /\ ParseContextWindowOverflow(svc_llm_out[1].exc).request_tokens > 0) =>
        /\ RLess(svc_ratio, svc_cfg.max_repo_data_ratio_in_prompt)
        /\ RLeq(svc_ratio, RMul(svc_cfg.max_repo_data_ratio_in_prompt, Ratio(9, 10)))
        /\ RLeq(Ratio(1, 20), svc_ratio)

\* a retry whose ratio is not below the ratio of the first attempt
C3_Witness ==
    /\ svc_ratio # NoRatio
    /\ svc_pc = "retry_ready"
    /\ ParseContextWindowOverflow(svc_llm_out[1].exc).max_tokens > 0
    /\ ~RLess(svc_ratio, svc_cfg.max_repo_data_ratio_in_prompt)

\* the steps of the claim, in the claimed order
C4_Order ==
    <<"parse_repo_url", "verify_repo_access", "get_repo_metadata", "get_tree",
      "get_languages", "get_readme", "get_documentation",
      "get_build_and_package_data", "get_tests", "get_code",
      "render_full_extraction_markdown", "process_markdown",
      "render_processed_markdown", "llm_summarize">>

C4_Rank(name) == CHOOSE i \in DOMAIN C4_Order : C4_Order[i] = name

\* the calls up to and including the first llm_summarize
C4_FirstPass ==
    IF \E i \in DOMAIN svc_calls : svc_calls[i] = "llm_summarize"
    THEN SubSeq(svc_calls, 1,
                CHOOSE i \in DOMAIN svc_calls :
                    /\ svc_calls[i] = "llm_summarize"
                    /\ \A j \in 1..(i - 1) : svc_calls[j] # "llm_summarize")
    ELSE svc_calls

\* C4: the steps of a request come one after the other in the order
\* parse_repo_url, verify_repo_access, get_repo_metadata, get_tree,
\* get_languages, get_readme, get_documentation, get_build_and_package_data,
\* get_tests, get_code, render full markdown, process_markdown, render
\* processed markdown, LLM summarize; a successful request in which no stage
\* was skipped and the processor gave a result performs exactly these; no
\* extraction call is made before verify_repo_access has succeeded and the
\* LLM is never called before processing has finished.
C4_FixedOrder ==
    /\ \A i \in DOMAIN svc_calls : svc_calls[i] \in SeqRange(C4_Order)
    /\ \A i, j \in DOMAIN C4_FirstPass :
          i < j => C4_Rank(C4_FirstPass[i]) < C4_Rank(C4_FirstPass[j])
    /\ \A i \in DOMAIN svc_calls :
          C4_Rank(svc_calls[i]) \in 3..10 =>
              /\ \E j \in 1..(i - 1) : svc_calls[j] = "verify_repo_access"
              /\ ~(svc_pc = "failed" /\ svc_error \in GithubErrors
                      /\ svc_calls[Len(svc_calls)] = "verify_repo_access")
    /\ \A i \in DOMAIN svc_calls :
          svc_calls[i] = "llm_summarize" =>
              /\ \E j \in 1..(i - 1) : svc_calls[j] = "process_markdown"
              /\ svc_calls[i - 1] # "llm_summarize"
              /\ Len(svc_outcomes) >= Cardinality({j \in 1..i : svc_calls[j] = "llm_summarize"})
    /\ svc_pc = "done" =>
          \A k \in (1..6) \cup {11, 12, 14} : C4_Order[k] \in SeqRange(C4_FirstPass)
    /\ (svc_pc = "done" /\ Len(svc_llm_out) = 1 /\ svc_outcomes[1].has_processed
            /\ \A field \in SeqRange(OPTIONAL_FIELDS) : svc_results[field] # "skipped") =>
          svc_calls = C4_Order

\* a successful request that made all fourteen calls
C4_Witness ==
    /\ svc_pc = "done"
    /\ svc_status = 200
    /\ svc_calls = C4_Order

\* C6: when process_markdown raises budget_error the request does not fail:
\* the markdown sent to the LLM is the rendering of the partial
\* ProcessedRepoMarkdown attached to the error if there is one and the
\* unprocessed full markdown otherwise, for the first processing and for the
\* reprocessing of the adaptive-retry path alike.
C6_BudgetErrorFallback ==
    /\ \A k \in DOMAIN svc_sent :
          svc_outcomes[k].kind = "budget_error" =>
              svc_sent[k] =
                  IF svc_outcomes[k].has_processed
                  THEN [source |-> "processed", of_outcome |-> k,
                        processed_bytes |-> svc_outcomes[k].output_total_utf8_bytes]
                  ELSE [source |-> "full_markdown", of_outcome |-> 0,
                        processed_bytes |-> 0]
    /\ svc_pc \in {"done", "failed"} => Len(svc_sent) = Len(svc_outcomes)
    /\ Len(svc_sent) <= Len(svc_outcomes)
    /\ svc_pc \in {"llm_ready", "llm_raised", "retry"} => Len(svc_outcomes) = 1
    /\ svc_pc = "retry_ready" => Len(svc_outcomes) = 2

\* the first processing raised budget_error without a partial result and the
\* full markdown was sent; the reprocessing raised budget_error with one, and
\* its rendering was sent
C6_Witness ==
    /\ Len(svc_sent) = 2
    /\ svc_outcomes[2].kind = "budget_error"
    /\ svc_outcomes[2].has_processed
    /\ svc_sent[2].source = "processed"
    /\ svc_sent[2].processed_bytes > svc_outcomes[2].max_repo_data_size_for_prompt_bytes

(***************************************************************************)
(* Claims about LlmGate._call_with_retry                                   *)
(***************************************************************************)
LcrLast == lcr_failures[Len(lcr_failures)]

\* C11: an attempt of LlmGate._call_with_retry whose operation outlives
\* attempt_timeout_seconds ends for the caller at the deadline.  Once
\* future.result has raised FuturesTimeout the handler can always go on,
\* whatever the worker is doing; the attempt is recorded as LlmTimeoutError;
\* and with max_retries = 0 the next thing the caller does is raise that
\* LlmTimeoutError.
C11_CallerDoesNotWait ==
    /\ lcr_pc = "timed_out" => ENABLED LcrTimeoutHandled
    /\ (lcr_pc \in {"sleeping", "raised"} /\ LcrLast = LlmOpDeadline)
         => lcr_last_exc = LlmTimeoutExc
    /\ (lcr_failures # <<>> /\ LcrLast = LlmOpDeadline /\ lcr_max_retries = 0)
         => /\ lcr_pc \in {"timed_out", "raised"}
            /\ lcr_pc = "raised" => lcr_raised = LlmTimeoutExc
            /\ lcr_sleeps = 0
            /\ lcr_calls = 1

\* The call has raised LlmTimeoutError with max_retries = 0 while the worker
\* of its only attempt is still inside the operation.
C11_Witness ==
    /\ lcr_pc = "raised"
    /\ lcr_max_retries = 0
    /\ lcr_failures = <<LlmOpDeadline>>
    /\ lcr_raised = LlmTimeoutExc
    /\ lcr_abandoned = 1

\* C12: a failure with status 429, 502, 503 or 504 is retried while
\* attempts remain (at most max_retries retries, max_retries + 1 calls),
\* and on the last attempt it leaves the call as a rate-limit error with
\* upstream_status 429 (for 429) or as an upstream error with that status;
\* a failure with status 400, 401, 403 or 404 leaves the call as an
\* upstream error with that status on the attempt where it occurs, with no
\* sleep and no further attempt after it.
C12_StatusRetryPolicy ==
    /\ lcr_calls <= lcr_max_retries + 1
    /\ lcr_sleeps <= lcr_max_retries
    /\ \A i \in DOMAIN lcr_failures :
         LET f == lcr_failures[i] IN
           /\ f.status \in NON_RETRYABLE_STATUSES
                => /\ i = Len(lcr_failures)
                   /\ lcr_pc = "raised"
                   /\ lcr_calls = i
                   /\ lcr_sleeps = i - 1
                   /\ lcr_raised.code = "llm_upstream_error"
                   /\ lcr_raised.upstream_status = f.status
           /\ f.status \in RETRYABLE_STATUSES
                => IF i < Attempts(lcr_max_retries)
                     THEN /\ lcr_sleeps >= i
                          /\ i = Len(lcr_failures) => lcr_pc \in {"sleeping", "loop", "result"}
                     ELSE /\ i = Len(lcr_failures)
                          /\ lcr_pc = "raised"
                          /\ lcr_calls = lcr_max_retries + 1
                          /\ lcr_raised.code = IF f.status = 429
                                                 THEN "llm_rate_limit_error"
                                                 ELSE "llm_upstream_error"
                          /\ lcr_raised.upstream_status = f.status

\* Two retries were spent on 503 and 429, the third attempt failed with 429
\* and the call raised the rate-limit error.
C12_Witness ==
    /\ lcr_pc = "raised"
    /\ lcr_max_retries = 2
    /\ Len(lcr_failures) = 3
    /\ lcr_failures[1].status = 503
    /\ lcr_failures[2].status = 429
    /\ lcr_failures[3].status = 429
    /\ lcr_sleeps = 2
    /\ lcr_raised = LlmExc("llm_rate_limit_error", 429, "label")

(***************************************************************************)
(* Claims about _fetch_all_entities                                        *)
(***************************************************************************)
SvcWarningsFor(stage, reason) ==
    {i \in DOMAIN svc_warnings : svc_warnings[i] = Warning(stage, reason)}

\* C13: each of the eight extraction stages respects the total fetch
\* deadline: no stage's call begins once max_total_fetch_duration_seconds
\* have elapsed since the fetch began; such a stage is skipped, yields its
\* empty result and adds exactly one warning that names the stage and the
\* reason.
C13_StagesRespectDeadline ==
    /\ svc_late = {}
    /\ \A k \in 1..Len(OPTIONAL_FIELDS) :
          LET stage == StageNames[Len(BASELINE_FIELDS) + k] IN
          IF svc_results[OPTIONAL_FIELDS[k]] = "skipped"
          THEN Cardinality(SvcWarningsFor(stage, "max_total_fetch_duration_reached")) = 1
          ELSE SvcWarningsFor(stage, "max_total_fetch_duration_reached") = {}

\* get_repo_metadata outlived the fetch budget and get_tree, get_languages
\* and get_readme were called all the same; the optional stages were skipped
\* with a warning each and the request succeeded.
C13_Witness ==
    /\ svc_pc = "done"
    /\ svc_late = {"tree", "languages", "readme"}
    /\ \A field \in SeqRange(OPTIONAL_FIELDS) : svc_results[field] = "skipped"
    /\ Len(svc_warnings) = Len(OPTIONAL_FIELDS)

\* C14: once access has been verified, the failure of an extraction stage
\* does not fail the request: the stage is left with its empty result and a
\* warning, the stages after it still run and the LLM is still invoked, so
\* a request that fails after verification fails no earlier than in the LLM
\* call.
C14_StageFailureDowngraded ==
    /\ (svc_pc = "failed" /\ svc_stage >= 1) => svc_sent # <<>>
    /\ \A k \in 1..Len(OPTIONAL_FIELDS) :
          svc_results[OPTIONAL_FIELDS[k]] = "failed" =>
              SvcWarningsFor(StageNames[Len(BASELINE_FIELDS) + k], "selector failed") # {}
    /\ svc_pc \in {"done", "failed"} /\ svc_sent # <<>> =>
          \A field \in SeqRange(OPTIONAL_FIELDS) : svc_results[field] # "pending"

\* get_languages raised after verification and the request failed with no
\* LLM call.
C14_Witness ==
    /\ svc_pc = "failed"
    /\ svc_calls = <<"parse_repo_url", "verify_repo_access", "get_repo_metadata",
                     "get_tree", "get_languages">>
    /\ svc_error \in GithubErrors
    /\ svc_sent = <<>>

(***************************************************************************)
(* Claims about the extractor's warnings                                   *)
(***************************************************************************)
\* the events the claim names: a candidate passed over for its tree size or
\* its downloaded size against the per-file cap, for the category's byte
\* cap, or for a failed download; a truncated file; a category stopped early
\* on a cap or on its stage deadline
C15_Events ==
    {"skip_tree_single", "skip_downloaded_single", "skip_tree_total",
     "skip_downloaded_total", "skip_download_failed", "homepage_trimmed",
     "break_total", "break_max_files", "break_deadline"}

\* C15: every step of a category extraction that passes over a candidate
\* for one of the named reasons, truncates a file or stops the category
\* early appends at least one warning, and no step shortens the warnings
\* list.
C15_EveryEventWarned ==
    [][/\ Len(col_warnings') >= Len(col_warnings)
       /\ col_last' \in C15_Events => Len(col_warnings') > Len(col_warnings)]_vars

\* A candidate was passed over because its tree-reported size would push the
\* category over its byte cap, and the warnings list is still empty.
C15_Witness ==
    /\ col_last = "skip_tree_total"
    /\ col_picked >= 1
    /\ col_warnings = <<>>

(***************************************************************************)
(* Claims about the digest parsers                                         *)
(***************************************************************************)
PrsScanned == prs_pc \in {"sliced", "rendered", "raised"}

\* C16: both digest parsers take a line equal to a known top-level heading
\* for a section boundary exactly when it lies outside the fenced blocks of
\* the digest: whatever the content between the fence lines of a file block
\* (lines of three backticks included), no line of that content is a
\* boundary, and every heading outside the blocks, those after a block's
\* closing fence included, is one.
C16_BoundariesOutsideFences ==
    PrsScanned =>
        \A i \in DOMAIN prs_doc :
            (\E k \in DOMAIN prs_boundaries : prs_boundaries[k] = i)
                <=> /\ prs_doc[i].tok \in DOMAIN HeaderToField(prs_parser)
                    /\ prs_doc[i].role # "content"

\* The README's content holds a line of three backticks followed by the line
\* "# Code": the parser took that line for a boundary, and the heading
\* "# Documentation" that follows the block's closing fence for none.
C16_Witness ==
    /\ PrsScanned
    /\ \E k \in DOMAIN prs_boundaries :
          /\ prs_doc[prs_boundaries[k]].role = "content"
          /\ prs_doc[prs_boundaries[k]].tok = "# Code"
    /\ \E i \in DOMAIN prs_doc :
          /\ prs_doc[i] = Line("# Documentation", "heading")
          /\ \A k \in DOMAIN prs_boundaries : prs_boundaries[k] # i

\* C17: for every ProcessedRepoMarkdown X of eight string sections,
\* render_processed_markdown(parse_extraction_markdown(
\* render_processed_markdown(X))) equals render_processed_markdown(X).
C17_RenderParseRender ==
    prs_pc = "rendered" => Toks(prs_rendered) = Toks(prs_doc)

\* X.readme is the empty string and everything else is free of headings and
\* backticks: the second rendering has "Not found" under "# README" where
\* the first had an empty line.
C17_Witness ==
    /\ prs_pc = "rendered"
    /\ prs_x["readme"] = EmptyText
    /\ prs_x["code"] = Plain(<<"text">>)
    /\ Toks(prs_rendered) # Toks(prs_doc)
    /\ prs_values["readme"] = None

(***************************************************************************)
(* Claims about LlmGate._normalize_and_validate                            *)
(***************************************************************************)
\* C18: _normalize_and_validate is idempotent: applied to the object it
\* returned for an accepted payload it succeeds and returns the same object.
C18_NormalizeIdempotent ==
    nrm_pc = "twice" =>
        /\ ~nrm_second.raised
        /\ nrm_second.value = nrm_first.value

\* The second call has returned for a payload whose technologies were
\* trimmed, cut at 80 characters, deduplicated and capped at 20 by the first.
C18_Witness ==
    /\ nrm_pc = "twice"
    /\ Len(nrm_payload.technologies.items) > TechMaxCount
    /\ Len(nrm_first.value.technologies.items) = TechMaxCount
    /\ nrm_first.value.technologies.items # SubSeq(nrm_payload.technologies.items, 1, TechMaxCount)
    /\ nrm_second = nrm_first

\* what the claim lets raise: a payload that is no object, a key set other
\* than the three keys, a summary or structure that is no string or is blank,
\* technologies that is no list or holds a non-string
C19_MustRaise(p) ==
    \/ p.type # "dict"
    \/ p.keys # ExpectedKeys
    \/ p.summary.type # "str"
    \/ p.structure.type # "str"
    \/ StripChars(p.summary.chars) = <<>>
    \/ StripChars(p.structure.chars) = <<>>
    \/ p.technologies.type # "list"
    \/ \E i \in DOMAIN p.technologies.items : p.technologies.items[i].type # "str"

C19_Trimmed(s) == s # <<>> /\ Head(s) # " " /\ s[Len(s)] # " "

\* an item of technologies as the claim wants it: trimmed and cut to at
\* most 80 characters
C19_Norm(item) ==
    LET text == StripChars(item.chars) IN
    StripChars(SubSeq(text, 1, Min2(TechMaxChars, Len(text))))

\* the positions of the input's items that are not blank and are the first
\* of their kind, ignoring case
C19_Firsts(items) ==
    {j \in DOMAIN items :
        /\ C19_Norm(items[j]) # <<>>
        /\ \A i \in 1..(j - 1) :
              Lower(C19_Norm(items[i])) # Lower(C19_Norm(items[j]))}

\* C19: for every payload _normalize_and_validate either raises
\* output_validation_error, and does so exactly for the inputs the claim
\* lists, or returns summary and structure trimmed and non-empty and a
\* technologies list of at most 20 items, each non-empty, trimmed, of at
\* most 80 characters, pairwise distinct ignoring case, and in the order of
\* their first occurrence in the input.
C19_NormalizeContract ==
    nrm_pc \in {"once", "twice"} =>
        IF C19_MustRaise(nrm_payload)
        THEN /\ nrm_first.raised
             /\ nrm_first.code = "llm_output_validation_error"
        ELSE /\ ~nrm_first.raised
             /\ LET v == nrm_first.value
                    out == v.technologies.items
                    items == nrm_payload.technologies.items
                IN  /\ v.type = "dict" /\ v.keys = ExpectedKeys
                    /\ v.summary = Str(StripChars(nrm_payload.summary.chars))
                    /\ v.structure = Str(StripChars(nrm_payload.structure.chars))
                    /\ C19_Trimmed(v.summary.chars)
                    /\ C19_Trimmed(v.structure.chars)
                    /\ Len(out) <= TechMaxCount
                    /\ \A k \in DOMAIN out :
                          /\ out[k].type = "str"
                          /\ C19_Trimmed(out[k].chars)
                          /\ Len(out[k].chars) <= TechMaxChars
                    /\ \A k, l \in DOMAIN out :
                          k # l => Lower(out[k].chars) # Lower(out[l].chars)
                    \* order of first occurrence: the k-th item of the
                    \* result is the k-th of the input's items that are
                    \* the first of their kind
                    /\ \E firsts \in {C19_Firsts(items)} :
                          /\ Len(out) = Min2(TechMaxCount, Cardinality(firsts))
                          /\ \A k \in DOMAIN out :
                                \E j \in firsts :
                                   /\ Cardinality({i \in firsts : i <= j}) = k
                                   /\ out[k] = Str(C19_Norm(items[j]))

\* An accepted payload whose technologies hold a blank item, two items that
\* differ in case only and an item of more than 80 characters.
C19_Witness ==
    /\ nrm_pc = "once"
    /\ ~nrm_first.raised
    /\ Len(nrm_payload.technologies.items) = 3
    /\ Len(nrm_first.value.technologies.items) = 2
    /\ nrm_payload.technologies.items[1] = Str(<<"a", " ">>)
    /\ nrm_payload.technologies.items[2] = Str(<<" ", "A">>)
    /\ Len(nrm_payload.technologies.items[3].chars) > TechMaxChars
    /\ Len(nrm_first.value.technologies.items[2].chars) < TechMaxChars

(***************************************************************************)
(* C20: parse_repo_url and the URL form                                    *)
(***************************************************************************)
\* the text is https://<host>/<owner>/<repo>: nothing around it, nothing
\* after the path, the host equal to github.com ignoring case, and the path
\* exactly "/" owner "/" repo with neither name empty or blank
C20_IsRepoUrlForm(u) ==
    /\ ~u.pad
    /\ ~u.query
    /\ LowerText(u.scheme) = "https"
    /\ LowerText(u.netloc) = GithubHost
    /\ \E parts \in {SplitPath(u.path, <<>>, <<>>)} :
          /\ Len(parts) = 3
          /\ parts[1] = <<>>
          /\ StripChars(parts[2]) # <<>>
          /\ StripChars(parts[3]) # <<>>

C20_ExpectedRepoRef(u) ==
    RepoRef(StripChars(SplitPath(u.path, <<>>, <<>>)[2]),
            StripChars(SplitPath(u.path, <<>>, <<>>)[3]))

\* C20: parse_repo_url returns RepoRef(owner, repo) exactly for inputs of
\* the form https://<host>/<owner>/<repo> with the host equal to the code
\* host ignoring case and owner and repo non-empty; every other input is
\* rejected with invalid_github_url and no RepoRef is produced.
C20_ExactlyRepoUrls ==
    url_pc = "done" =>
        IF C20_IsRepoUrlForm(url_input)
        THEN url_result = C20_ExpectedRepoRef(url_input)
        ELSE /\ url_result.raised
             /\ url_result.code = "invalid_github_url"
             /\ url_result.owner = <<>>
             /\ url_result.repo = <<>>

\* "https://github.com/o/r/" (a trailing slash, so three separators) has
\* been parsed and a RepoRef came back
C20_Witness ==
    /\ url_pc = "done"
    /\ url_input = Url(FALSE, "https", "github.com",
                       <<"/", "o", "/", "r", "/">>, FALSE)
    /\ url_result = RepoRef(<<"o">>, <<"r">>)

\* what does hold: a RepoRef comes back only for https, github.com in any
\* case, and exactly two non-empty path parts; every raise is
\* invalid_github_url
C20_AcceptsOnlyTwoParts ==
    url_pc = "done" =>
        /\ url_result.raised => url_result.code = "invalid_github_url"
        /\ ~url_result.raised =>
              /\ LowerText(url_input.scheme) = "https"
              /\ LowerText(url_input.netloc) = GithubHost
              /\ Len(PathParts(url_input.path)) = 2
              /\ url_result.owner # <<>>
              /\ url_result.repo # <<>>

(***************************************************************************)
(* C21, C22: the edge's answers to errors                                  *)
(***************************************************************************)
C21_IsUpstream(exc) == exc.code \in {"github_upstream_error", "llm_upstream_error"}

\* the status table, read off the kinds of error it names
C21_TableStatus(exc) ==
    CASE exc.cls = "RequestValidationError" -> 400
      [] exc.code = "invalid_github_url" -> 400
      [] exc.code = "repository_inaccessible" -> 404
      [] exc.code \in {"llm_digest_parse_error", "repo_processor_parse_error"} -> 422
      [] exc.code \in {"github_rate_limited", "llm_rate_limit_error"} -> 429
      [] C21_IsUpstream(exc) /\ exc.upstream_status = 429 -> 429
      [] exc.code \in {"github_response_shape_error",
                       "llm_output_validation_error"} -> 502
      [] exc.code \in {"github_timeout", "llm_timeout_error"} -> 504
      [] C21_IsUpstream(exc) /\ exc.upstream_status = 504 -> 504
      [] C21_IsUpstream(exc) -> 503
      [] OTHER -> 500

C22_RejectedUrlAnswer ==
    (edge_pc = "responded" /\ edge_request.valid_body) =>
        /\ edge_request.github_url = EmptyUrlText =>
              edge_response = ErrorResponse(400, "Invalid GitHub URL.")
        /\ \A parsed \in {parse_repo_url(edge_request.github_url)} :
              parsed.raised =>
                  edge_response = ErrorResponse(400, parsed.message)

\* the request with github_url "" has been answered, with the message
\* parse_repo_url gives for an empty URL
C22_Witness ==
    /\ edge_pc = "responded"
    /\ edge_request = EdgeRequest(TRUE, EmptyUrlText, TRUE)
    /\ edge_response = ErrorResponse(400, "GitHub URL is required.")

\* a rejected URL whose last segment is too long for a file name has been
\* answered by the fallback handler
C22_LogNameAnswer ==
    /\ edge_pc = "responded"
    /\ parse_repo_url(edge_request.github_url).raised
    /\ ~edge_request.log_name_ok
    /\ edge_response = ErrorResponse(500, "Internal server error.")

(***************************************************************************)
(* C23, C24: LlmGate.summarize and parse_repo_digest_markdown              *)
(***************************************************************************)
\* the known headings of the text that stand outside fenced blocks: an even
\* number of fence lines precedes them
C23_HeadingsOutsideFences(lines) ==
    {i \in DOMAIN lines :
        /\ lines[i].tok \in DOMAIN HEADER_TO_FIELD
        /\ Cardinality({j \in 1..i : StartsWithFence(lines[j].tok)}) % 2 = 0}

C23_PastParsing == sum_pc \notin {"idle", "start", "parse"}

\* C23 as stated: LlmGate.summarize called with markdown that has no known
\* top-level heading outside fenced blocks raises digest_parse_error, and
\* does so before any attempt of the retry loop is started.
C23_RaisesDigestParseError ==
    (C23_PastParsing /\ C23_HeadingsOutsideFences(sum_markdown) = {}) =>
        /\ sum_pc = "raised"
        /\ sum_raised = "llm_digest_parse_error"
        /\ sum_attempts = 0

\* C23, amended: with the API key set and the options valid, summarize
\* called with markdown that has no known top-level heading outside fenced
\* blocks raises digest_parse_error before any attempt of the retry loop is
\* started; without them it raises llm_config_error, also before any
\* attempt.
C23_RaisesBeforeAnyRequest ==
    (C23_PastParsing /\ C23_HeadingsOutsideFences(sum_markdown) = {}) =>
        /\ sum_pc = "raised"
        /\ sum_raised = IF sum_precheck = "ok" THEN "llm_digest_parse_error"
                        ELSE "llm_config_error"
        /\ sum_attempts = 0

\* summarize has raised digest_parse_error for a text whose only heading
\* stands inside a fence
C23_Witness ==
    /\ sum_pc = "raised"
    /\ sum_raised = "llm_digest_parse_error"
    /\ sum_markdown = Plain(<<"[fence]", "# README", "text">>)
    /\ sum_attempts = 0

\* the body the claim gives the section whose heading stands at line i
C24_BodyAt(lines, i) ==
    LET later == {j \in C23_HeadingsOutsideFences(lines) : j > i}
        next == IF later = {} THEN Len(lines) + 1
                ELSE CHOOSE j \in later : \A k \in later : j <= k
        body == Strip(SubSeq(lines, i + 1, next - 1))
    IN  IF Toks(body) \in {<<"Not requested">>, <<"Not found">>}
        THEN EmptyText ELSE body

\* C24: parse_repo_digest_markdown returns a digest whose eight fields are
\* all strings: a section whose body is exactly 'Not requested' or 'Not
\* found' maps to the empty string, a section whose heading does not occur
\* maps to the empty string, and every other section maps to its trimmed
\* body between its heading and the next known boundary (its last heading,
\* when the heading occurs more than once).
C24_DigestFields ==
    sum_digest # NoSectionValues =>
        /\ DOMAIN sum_digest = FieldsOf("llm_gate")
        /\ \A field \in FieldsOf("llm_gate") :
              /\ sum_digest[field] # None
              /\ \E occurs \in {{i \in C23_HeadingsOutsideFences(sum_markdown) :
                                   HEADER_TO_FIELD[sum_markdown[i].tok] = field}} :
                    IF occurs = {}
                    THEN sum_digest[field] = EmptyText
                    ELSE \E last \in occurs :
                            /\ \A i \in occurs : i <= last
                            /\ sum_digest[field] = C24_BodyAt(sum_markdown, last)

\* a text with a "Not found" README, a Code section with a body and no
\* other heading has been parsed
C24_Witness ==
    /\ sum_pc = "call"
    /\ sum_markdown = Plain(<<"# README", "Not found", "# Code", "text">>)
    /\ sum_digest["readme_text"] = EmptyText
    /\ sum_digest["code_snippets"] = Plain(<<"text">>)
    /\ sum_digest["documentation_text"] = EmptyText

(***************************************************************************)
(* C25: the binary guard                                                   *)
(***************************************************************************)
\* C25: a fetched payload (tree file or homepage page) with a NUL byte is
\* never turned into a FileContent: the fetch is rejected with
\* response_shape_error for that file only, the file is absent from the
\* category's result, a warning naming it is recorded, and extraction
\* continues with the next candidate.
C25_NulPayloadRejected ==
    [][col_fetch'.payload = "nul" =>
          /\ col_fetch'.error = "github_response_shape_error"
          /\ col_files' = col_files
          /\ col_used' = col_used
          /\ col_picked' = col_picked
          /\ Len(col_warnings') = Len(col_warnings) + 1
          /\ WarningNames(col_warnings'[Len(col_warnings')]) = col_fetch'.subject
          /\ col_pc' = "loop"
          /\ col_fetch'.subject = "path" => col_idx' = col_idx + 1]_vars

\* a tree file with a NUL byte has just been fetched, after a file was
\* selected and with a candidate still to come
C25_Witness ==
    /\ col_fetch = Fetch("path", "nul")
    /\ col_last = "skip_download_failed"
    /\ col_picked >= 1
    /\ col_idx < col_n
    /\ col_pc = "loop"

\* a homepage page with a NUL byte has just been fetched
C25_HomepageNul ==
    /\ col_fetch = Fetch("homepage", "nul")
    /\ col_files = <<>>
    /\ col_pc = "loop"

(***************************************************************************)
(* C26: the size of what _truncate_for_field returns                       *)
(***************************************************************************)
\* C26: for every section content and every max_bytes > 0,
\* _truncate_for_field returns text of at most max_bytes UTF-8 bytes; for
\* the file-block sections the bound includes the separators between the
\* kept blocks.
C26_WithinMaxBytes ==
    trn_pc = "done" => trn_result.value.out <= trn_max_bytes

\* the code section holds two blocks, max_bytes is the sum of their sizes,
\* and both were kept with the separator between them
C26_Witness ==
    /\ trn_pc = "done"
    /\ trn_field = "code"
    /\ trn_content = BlocksContent(<<5, 5>>)
    /\ trn_max_bytes = 2 * BlockBytes(5)
    /\ trn_result.truncated
    /\ trn_result.value.out = trn_max_bytes + 2

\* a text section cut to nothing comes back as "Truncated to zero"
C26_TruncatedToZeroLonger ==
    /\ trn_pc = "done"
    /\ trn_field = "readme"
    /\ trn_max_bytes < TruncatedToZeroBytes
    /\ trn_result.value = TruncatedToZero


(***************************************************************************)
(* C27: once the four baseline sections fit in body_budget,                *)
(* process_markdown returns normally and never raises budget_error: the    *)
(* output rendered after the allocation and the truncation of the optional *)
(* sections is at most max_repo_bytes, whatever the optional sizes and     *)
(* weights.                                                                *)
(***************************************************************************)
\* the slow path was entered and the baseline check of line 139 passed
C27_BaselineFits ==
    /\ proc_pc = "done"
    /\ proc_result.kind \in {"returned", "budget_error"}
    /\ proc_result.where # "line 50"
    /\ proc_result.where # "line 142"

C27_NoBudgetErrorOnceBaselineFits ==
    C27_BaselineFits =>
        /\ proc_result.kind = "returned"
        /\ proc_result.output_total_utf8_bytes
               <= proc_result.max_repo_data_size_for_prompt_bytes

\* the baseline fits, and the final check of line 174 raises
C27_Witness ==
    /\ C27_BaselineFits
    /\ proc_result.kind = "budget_error"
    /\ proc_result.has_processed
    /\ proc_result.output_total_utf8_bytes
           > proc_result.max_repo_data_size_for_prompt_bytes

\* the same with an overflow of more than the one byte the skeleton lacks
C27_OverflowBeyondSkeleton ==
    /\ C27_Witness
    /\ proc_result.output_total_utf8_bytes
           > proc_result.max_repo_data_size_for_prompt_bytes + 1


(***************************************************************************)
(* C28: on the slow path the baseline sections are shrunk in the order     *)
(* directory_tree, readme, language_stats, repository_metadata.  A section *)
(* is truncated only while the baseline total exceeds body_budget and      *)
(* after every earlier section has been truncated, each to the allowance   *)
(* max(0, body_budget - sum of the other baseline sections' sizes); if the *)
(* total still exceeds body_budget after all four, budget_error is raised  *)
(* without an attached result.                                             *)
(***************************************************************************)
C28_Order == <<"directory_tree", "readme", "language_stats", "repository_metadata">>

C28_Baseline == {"repository_metadata", "language_stats", "directory_tree", "readme"}

C28_Total(sections) ==
    sections["repository_metadata"].raw + sections["language_stats"].raw
        + sections["directory_tree"].raw + sections["readme"].raw

C28_Allowance(sections, field, budget) ==
    LET others == C28_Total(sections) - sections[field].raw
    IN  IF budget - others > 0 THEN budget - others ELSE 0

\* a step that changes the sections cuts exactly the next section of the
\* order, to its allowance, with every earlier section already truncated
C28_StepInOrder ==
    bsl_st' # bsl_st =>
        \E i \in DOMAIN C28_Order :
            /\ C28_Total(bsl_st.sections) > BslBudget
            /\ bsl_st.notes = SubSeq(C28_Order, 1, i - 1)
            /\ bsl_st'.notes = SubSeq(C28_Order, 1, i)
            /\ \A field \in DOMAIN bsl_st.sections \ {C28_Order[i]} :
                   bsl_st'.sections[field] = bsl_st.sections[field]
            /\ bsl_st'.sections[C28_Order[i]]
                   = TruncateForField(
                         C28_Order[i], bsl_doc[C28_Order[i]],
                         C28_Allowance(bsl_st.sections, C28_Order[i], BslBudget)).value

\* how the baseline steps end
C28_Ending ==
    /\ bsl_pc = "raised" =>
           /\ bsl_st.notes = C28_Order
           /\ C28_Total(bsl_st.sections) > BslBudget
           /\ bsl_exc.kind = "budget_error"
           /\ ~bsl_exc.has_processed
    /\ bsl_pc = "allocate" =>
           /\ C28_Total(bsl_st.sections) <= BslBudget
           /\ bsl_exc = NoOutcome
    /\ bsl_pc \in {"shrink", "check"} /\ C28_Total(bsl_st.sections) > BslBudget =>
           bsl_st.notes = SubSeq(C28_Order, 1, bsl_step - 1)

C28_ShrinkOrder == [](C28_Ending) /\ [][C28_StepInOrder]_vars

\* all four sections were truncated, in order, and the error is raised
C28_Witness ==
    /\ bsl_pc = "raised"
    /\ bsl_st.notes = C28_Order
    /\ BslBudget > 0
    /\ ~bsl_exc.has_processed

\* the steps stop after the second section: the later two stay untouched
C28_StoppedAfterReadme ==
    /\ bsl_pc = "allocate"
    /\ bsl_st.notes = <<"directory_tree", "readme">>


(***************************************************************************)
(* C29: after every pass of _allocate_optional_bytes and on return, no     *)
(* category's allocation exceeds its content size, every allocation is a   *)
(* non-negative integer, the allocations sum to at most available_bytes,   *)
(* and a category of zero weight or zero content has allocation 0.         *)
(***************************************************************************)
C29_Sum(f) ==
    f["documentation"] + f["build_and_package_data"] + f["tests"] + f["code"]

C29_AllocatorInvariants ==
    alc_pc \in {"loop", "returned"} =>
        /\ \A name \in DOMAIN alc_sizes :
               /\ alc_allocation[name] \in Nat
               /\ alc_allocation[name] <= alc_sizes[name]
               /\ alc_weights[name] = 0 \/ alc_sizes[name] = 0
                      => alc_allocation[name] = 0
        /\ C29_Sum(alc_allocation) <= alc_available

\* returned with budget to spare: one category is capped at its size, one
\* with content has no weight, one with weight has no content
C29_Witness ==
    /\ alc_pc = "returned"
    /\ alc_weights = SkewedWeights
    /\ alc_available = MaxAvailable
    /\ alc_sizes = [documentation |-> 1, build_and_package_data |-> MaxCategoryBytes,
                    tests |-> 0, code |-> MaxCategoryBytes]
    /\ alc_allocation = [documentation |-> 1, build_and_package_data |-> 0,
                         tests |-> 0, code |-> MaxCategoryBytes]


(***************************************************************************)
(* C30: _allocate_optional_bytes always returns: every pass entered with   *)
(* remaining > 0 and an unsatisfied category moves at least one byte.  On  *)
(* return the allocations sum to min(available_bytes, total content of the *)
(* categories with nonzero weight and nonzero content): no budget is left  *)
(* while an eligible category is below its content size.                   *)
(***************************************************************************)
C30_Eligible(name) == alc_weights[name] > 0 /\ alc_sizes[name] > 0

C30_EligibleTotal ==
    C29_Sum([name \in DOMAIN alc_sizes |->
                IF C30_Eligible(name) THEN alc_sizes[name] ELSE 0])

C30_OnReturn ==
    alc_pc = "returned" =>
        /\ C29_Sum(alc_allocation)
               = IF alc_available <= C30_EligibleTotal
                 THEN alc_available ELSE C30_EligibleTotal
        /\ alc_exit \in {"remaining", "satisfied"}
        /\ \A name \in DOMAIN alc_sizes :
               C30_Eligible(name) /\ alc_allocation[name] < alc_sizes[name]
                   => C29_Sum(alc_allocation) = alc_available

\* a pass moves bytes from remaining to the allocation, at least one
C30_PassProgress ==
    alc_pc = "loop" /\ alc_pc' = "loop" =>
        /\ alc_remaining' < alc_remaining
        /\ alc_remaining' >= 0
        /\ C29_Sum(alc_allocation') - C29_Sum(alc_allocation)
               = alc_remaining - alc_remaining'

\* a pass entered with budget and an unsatisfied category is not the last
\* for lack of progress; remaining bounds the passes still to come
C30_NeverStuck ==
    alc_pc = "loop" /\ alc_remaining > 0 /\ alc_unsatisfied # {} =>
        /\ AlcExit = ""
        /\ alc_remaining <= alc_available

C30_ReturnsExactTotal ==
    /\ [](C30_OnReturn /\ C30_NeverStuck)
    /\ [][C30_PassProgress]_vars

\* returned after a second pass (the first hands out 1 + 4 of the 10 bytes):
\* every eligible category is full and budget is left
C30_Witness ==
    /\ alc_pc = "returned"
    /\ alc_exit = "satisfied"
    /\ alc_weights = DefaultWeights
    /\ alc_available = MaxAvailable
    /\ alc_sizes = [documentation |-> 1, build_and_package_data |-> MaxCategoryBytes,
                    tests |-> 0, code |-> 0]
    /\ alc_allocation = [documentation |-> 1, build_and_package_data |-> MaxCategoryBytes,
                         tests |-> 0, code |-> 0]

\* budget exhausted with an eligible category left below its size
C30_BudgetExhausted ==
    /\ alc_pc = "returned"
    /\ alc_exit = "remaining"
    /\ alc_available > 0
    /\ \E name \in DOMAIN alc_sizes :
           C30_Eligible(name) /\ alc_allocation[name] < alc_sizes[name]


(***************************************************************************)
(* C31: at the first file block that does not fit, truncation emits a      *)
(* partial block (header lines, opening fence, a prefix of the body,       *)
(* closing fence) within the remaining budget; when the header and the     *)
(* fences alone do not fit in the remaining budget the block is dropped    *)
(* and nothing of it appears in the output.  No later block is emitted.    *)
(***************************************************************************)
\* byte length of the first k blocks as _truncate_file_blocks counts them
C31_Used(bodies, k) ==
    SumSeq([i \in 1..k |-> BlockBytes(bodies[i])])

\* the number of leading blocks taken whole
C31_Whole(bodies, max_bytes) ==
    CHOOSE k \in 0..Len(bodies) :
        /\ C31_Used(bodies, k) <= max_bytes
        /\ k < Len(bodies) => C31_Used(bodies, k + 1) > max_bytes

\* the output made of the first k blocks and nothing else
C31_OnlyWhole(bodies, k) ==
    IF k = 0 THEN TruncatedToZeroBytes
    ELSE SumSeq([i \in 1..k |-> BlockBytes(bodies[i])]) + 2 * (k - 1)

\* a file-block section was cut at a block whose header and fences do not
\* fit in what is left
C31_HeaderDoesNotFit ==
    /\ trn_pc = "done"
    /\ trn_field \in SeqRange(OPTIONAL_FIELDS)
    /\ trn_content.kind = "blocks"
    /\ trn_result.truncated
    /\ C31_Whole(trn_content.items, trn_max_bytes) < Len(trn_content.items)
    /\ trn_max_bytes - C31_Used(trn_content.items,
                                C31_Whole(trn_content.items, trn_max_bytes))
           < FileHeaderBytes + FileSuffixBytes

C31_OverflowingBlockDropped ==
    C31_HeaderDoesNotFit =>
        trn_result.value.out
            = C31_OnlyWhole(trn_content.items,
                            C31_Whole(trn_content.items, trn_max_bytes))

\* one block, ten bytes of budget: the output is the first ten bytes of the
\* block's header line
C31_Witness ==
    /\ C31_HeaderDoesNotFit
    /\ trn_content = BlocksContent(<<5>>)
    /\ trn_max_bytes = 10
    /\ trn_result.value.out = 10


(***************************************************************************)
(* C32: a category stage stops fetching at the earliest of its deadlines:  *)
(* once its own per-stage duration or the total fetch duration has         *)
(* elapsed, no further file download is started in that stage.             *)
(***************************************************************************)
C32_NoDownloadPastDeadline ==
    [][col_fetch'.subject = "path" /\ col_idx' = col_idx + 1 =>
          ~col_elapsed'.stage /\ ~col_elapsed'.total]_vars

\* get_tests downloads and selects a file in an iteration entered with the
\* total fetch duration elapsed
C32_Witness ==
    /\ col_category = "tests"
    /\ col_fetch = Fetch("path", "text")
    /\ col_last = "selected"
    /\ col_elapsed.total
    /\ col_idx >= 2

\* get_code stops on its own duration
C32_StageDeadlineStops ==
    /\ col_category = "code"
    /\ col_last = "break_deadline"
    /\ col_elapsed.stage
    /\ col_fetch = NoFetch


C34_OperationsExecuting ==
    (IF lcr_worker = "running" THEN 1 ELSE 0) + lcr_abandoned

C34_AtMostOneOperation == C34_OperationsExecuting <= 1

\* the second attempt's worker runs next to the abandoned worker of the
\* first attempt, which timed out
C34_Witness ==
    /\ lcr_attempt = 2
    /\ lcr_failures = <<LlmOpDeadline>>
    /\ lcr_worker = "running"
    /\ lcr_abandoned = 1
    /\ lcr_pc = "result"


(***************************************************************************)
(* C35: on one GithubGate instance, once get_repo_metadata has succeeded   *)
(* for a RepoRef, every later get_repo_metadata, get_tree or               *)
(* get_file_content call for it takes the metadata from the cache, makes   *)
(* no further upstream metadata request for it and sees the same value; a  *)
(* metadata fetch that fails leaves the cache unchanged.                   *)
(***************************************************************************)
\* the cache holds, for every key fetched with success, the value of that
\* first success
C35_FirstValueKept ==
    \A key \in DOMAIN mdc_first :
        mdc_first[key] # NoMetadata => mdc_cache[key] = mdc_first[key]

\* one call: after a success for its key it requests nothing, raises nothing
\* from the metadata step and uses the first value; a call whose metadata
\* fetch fails leaves the cache as it was
C35_CallStep ==
    mdc_calls' = mdc_calls + 1 =>
        LET key == mdc_last'.key IN
        /\ mdc_first[key] # NoMetadata =>
              /\ mdc_last'.hit
              /\ mdc_fetches' = mdc_fetches
              /\ mdc_last'.value = mdc_first[key]
              /\ mdc_cache' = mdc_cache
        /\ mdc_fetches'[key] > mdc_fetches[key] /\ mdc_last'.value = NoMetadata =>
              mdc_cache' = mdc_cache

C35_MetadataCached == [](C35_FirstValueKept) /\ [][C35_CallStep]_vars

\* "octo/one": one fetch succeeded with default branch main, then
\* get_file_content used the cached value; "octo/two": two fetches failed and
\* its key is still absent
C35_Witness ==
    /\ mdc_calls = 4
    /\ mdc_fetches = (<<"octo", "one">> :> 1) @@ (<<"octo", "two">> :> 2)
    /\ mdc_first[<<"octo", "one">>].default_branch = "main"
    /\ mdc_cache[<<"octo", "two">>] = NoMetadata
    /\ mdc_last.method = "get_file_content"
    /\ mdc_last.key = <<"octo", "one">>
    /\ mdc_last.hit
    /\ mdc_last.value = mdc_first[<<"octo", "one">>]


(***************************************************************************)
(* C36: the leftover distribution of an allocator pass.                    *)
(***************************************************************************)
\* the fractional part of the proportional share remaining * weight /
\* total_weight of a category, as its numerator over the common denominator
\* total_weight
C36_ExactFraction(name) ==
    (alc_remaining * alc_weights[name]) % SumOver(alc_unsatisfied, alc_weights)

\* the shares of the pass with the whole parts the pass computes and the
\* fractional parts of the proportional shares
C36_ExactShares ==
    {[name |-> s.name,
      share |-> [floor |-> s.share.floor,
                 frac |-> <<0, 0, C36_ExactFraction(s.name)>>]] :
        s \in FloatShares(alc_unsatisfied, alc_remaining, alc_weights)}

\* the allocation after a pass that serves the spare bytes by descending
\* fractional part of the proportional share, equal parts by name
C36_ByProportionalShare ==
    AddIncrements(alc_allocation, alc_unsatisfied,
                  PassFromShares(C36_ExactShares, alc_allocation, alc_unsatisfied,
                                 alc_remaining, alc_sizes))

\* C36: in every pass the spare bytes go one at a time to the unsatisfied
\* categories by descending fractional part of their proportional share,
\* categories with equal fractional parts in ascending order of their
\* names, categories already at their content size skipped: the allocation
\* after the pass is the one this order gives.
C36_LeftoverOrder ==
    [][AlcPass => alc_allocation' = C36_ByProportionalShare]_vars

\* available_bytes 12 with documentation 7, tests 2 and code 4 bytes under
\* the default weights: the shares are 6, 3 and 3, one byte is spare, and
\* the pass gave it to documentation although code comes first by name
C36_Witness ==
    /\ alc_available = LeftoverAvailable
    /\ alc_weights = DefaultWeights
    /\ alc_sizes = [documentation |-> 7, build_and_package_data |-> 0,
                    tests |-> 2, code |-> 4]
    /\ alc_allocation = [documentation |-> 7, build_and_package_data |-> 0,
                         tests |-> 2, code |-> 3]
    /\ alc_remaining = 0


(***************************************************************************)
(* C37: what _truncate_directory_tree keeps of a tree.                     *)
(***************************************************************************)
\* _truncate_for_field handed a tree of several lines to
\* _truncate_directory_tree and it has returned
C37_TreeTruncated ==
    /\ trn_pc = "done"
    /\ trn_field = "directory_tree"
    /\ trn_content.kind = "tree"
    /\ Utf8Len(trn_content) > trn_max_bytes

\* byte length of the first k input lines joined with "\n"
C37_Joined(k) ==
    IF k = 0 THEN 0 ELSE SumSeq(SubSeq(trn_content.items, 1, k)) + (k - 1)

\* the returned text is the first k input lines joined with "\n", it fits
\* in max_bytes, and one more line would not
C37_IsLongestPrefix(k) ==
    /\ trn_selected = SubSeq(trn_content.items, 1, k)
    /\ trn_result.value = Value(C37_Joined(k), C37_Joined(k))
    /\ C37_Joined(k) <= trn_max_bytes
    /\ k < Len(trn_content.items) => C37_Joined(k + 1) > trn_max_bytes

\* C37 as stated: for every max_bytes > 0 the text returned is the longest
\* prefix of whole input lines, unmodified and in input order, whose
\* length joined with newlines is at most max_bytes (the empty prefix when
\* not even the first line fits).
C37_LongestPrefixAlways ==
    C37_TreeTruncated =>
        \E k \in 0..Len(trn_content.items) : C37_IsLongestPrefix(k)

\* C37 amended: when the first input line fits in max_bytes the text
\* returned is the longest prefix of whole input lines, unmodified and in
\* input order, whose length joined with newlines is at most max_bytes;
\* when the first line does not fit the text returned is the literal
\* "Truncated to zero" and no input line is kept.
C37_LongestPrefixOrLiteral ==
    C37_TreeTruncated =>
        IF trn_content.items[1] <= trn_max_bytes
        THEN \E k \in 1..Len(trn_content.items) : C37_IsLongestPrefix(k)
        ELSE trn_selected = <<>> /\ trn_result.value = TruncatedToZero

\* a tree of three lines cut to its first two: the third would not fit
C37_Witness ==
    /\ C37_TreeTruncated
    /\ trn_content = TreeContent(<<5, 3, 4>>)
    /\ trn_max_bytes = 12
    /\ trn_selected = <<5, 3>>
    /\ trn_result.value = Value(9, 9)

\* the first line is longer than max_bytes: the 17-byte literal comes back
C37_FirstLineTooLong ==
    /\ C37_TreeTruncated
    /\ trn_content = TreeContent(<<20, 3>>)
    /\ trn_max_bytes = 4
    /\ trn_result.value = TruncatedToZero


(***************************************************************************)
(* C38: the end of the per-request debug log.                              *)
(***************************************************************************)
\* debug.lines ends with the request_end line of the status code
C38_EndsWithRequestEnd ==
    /\ dbg_lines # <<>>
    /\ dbg_lines[Len(dbg_lines)] = RequestEndLine(dbg_status)

\* one file was written and it holds every line of the log
C38_WrittenOnceAtEnd == dbg_files = <<dbg_lines>>

\* a step only adds lines at the end of debug.lines and leaves the files
\* on disk as they are
C38_AppendOnly ==
    /\ Len(dbg_lines') >= Len(dbg_lines)
    /\ SubSeq(dbg_lines', 1, Len(dbg_lines)) = dbg_lines
    /\ Len(dbg_files') >= Len(dbg_files)
    /\ SubSeq(dbg_files', 1, Len(dbg_files)) = dbg_files

C38_ThroughFinally == dbg_pc = "out" /\ dbg_status # NoStatus

\* no request_end line in the log
C38_NoRequestEnd ==
    \A i \in 1..Len(dbg_lines) : dbg_lines[i].text # "request_end"

C38_OnExit ==
    dbg_pc = "out" =>
        IF C38_ThroughFinally
        THEN /\ C38_EndsWithRequestEnd
             /\ dbg_write_calls = 1
             /\ IF dbg_env.logs_writable THEN C38_WrittenOnceAtEnd
                ELSE dbg_files = <<>> /\ dbg_raised = "OSError"
        ELSE /\ dbg_raised = "LlmConfigError"
             /\ C38_NoRequestEnd
             /\ dbg_write_calls = 0
             /\ dbg_files = <<>>

C38_LeftBeforeTry ==
    /\ dbg_pc = "out"
    /\ dbg_raised = "LlmConfigError"
    /\ Len(dbg_lines) = 2
    /\ dbg_files = <<>>


(***************************************************************************)
(* C39: the homepage page in the documentation result.                     *)
(***************************************************************************)
\* the step of get_documentation that fetched the page of a set homepage
\* without an error
C39_PageFetched ==
    /\ col_pc = "homepage"
    /\ col_fetch' = Fetch("homepage", "text")

\* after the step the result starts with the homepage file, within
\* min(max_single_file_bytes, max_docs_total_bytes), and the tree files are
\* given the docs cap less its byte_size
C39_HomepageFirst ==
    /\ col_paths' = <<AboutHomepage>>
    /\ Len(col_files') = 1
    /\ col_files'[1] <= Min2(col_limits.single, col_limits.total)
    /\ col_total_limit' = col_limits.total - col_files'[1]

\* the documentation result starts with the homepage file: no other file
\* has its path, and the tree files after it stay within the cap less its
\* byte_size
C39_TreeFilesUnderReducedCap ==
    (col_category = "documentation" /\ col_paths # <<>>
        /\ col_paths[1] = AboutHomepage) =>
        /\ \A i \in 2..Len(col_paths) : col_paths[i] # AboutHomepage
        /\ col_used = SumSeq(Tail(col_files))
        /\ col_used <= col_limits.total - col_files[1]

\* the homepage file is nowhere but in first place, and no candidate of the
\* tree has its path
C39_HomepageOnlyFirst ==
    /\ col_category = "documentation" =>
           \A i \in 2..Len(col_paths) : col_paths[i] # AboutHomepage
    /\ \A i \in 1..Len(DocOrderedPaths) : DocOrderedPaths[i] # AboutHomepage
    /\ Len(col_paths) = Len(col_files)

\* C39 as stated: whenever metadata.homepage is set and the page is fetched
\* without an error, the documentation result starts with the file
\* 'about-homepage' of at most min(max_single_file_bytes,
\* max_docs_total_bytes) bytes, that path occurs once, and the tree files
\* that follow are collected under the docs cap less the homepage file's
\* byte_size.
C39_FetchedPageComesFirst ==
    /\ [](C39_TreeFilesUnderReducedCap /\ C39_HomepageOnlyFirst)
    /\ [][C39_PageFetched => C39_HomepageFirst]_vars

\* C39 amended: whenever metadata.homepage is set, the page is fetched
\* without an error and its text cut to min(max_single_file_bytes,
\* max_docs_total_bytes) bytes is not empty, the documentation result
\* starts with the file 'about-homepage' of at most that many bytes, that
\* path occurs once, and the tree files that follow are collected under
\* the docs cap less the homepage file's byte_size; when the cut text is
\* empty the page is left out with a warning and the tree files get the
\* whole docs cap.
C39_NonEmptyPageComesFirst ==
    /\ [](C39_TreeFilesUnderReducedCap /\ C39_HomepageOnlyFirst)
    /\ [][C39_PageFetched =>
             IF col_last' = "homepage_skipped"
             THEN /\ col_files' = <<>>
                  /\ col_paths' = <<>>
                  /\ col_total_limit' = col_limits.total
                  /\ Len(col_warnings') = Len(col_warnings) + 1
             ELSE C39_HomepageFirst]_vars

\* the homepage page was trimmed to one byte and two tree files follow it,
\* filling the docs cap
C39_Witness ==
    /\ col_category = "documentation"
    /\ col_pc = "done"
    /\ col_limits.total = MaxTotalLimit
    /\ Len(col_paths) = 3
    /\ col_paths[1] = AboutHomepage
    /\ col_files[1] = 1
    /\ col_total_limit = MaxTotalLimit - 1
    /\ col_used = col_total_limit

====
